---- MODULE Spec2Model ----
(***************************************************************************)
(* GS1 DataMatrix / barcode parser of the medicine inventory tracker       *)
(* (gs1-parser.ts).  A scanned text is a sequence of one-character         *)
(* strings; the group separator (code point 29) is the character GS.       *)
(* A JavaScript null string is the value NULL, distinct from every string, *)
(* the empty string included.                                              *)
(***************************************************************************)
EXTENDS Integers, Sequences, FiniteSets, TLC

\* ------------------------------------------------------------------------
\* Characters and JavaScript string primitives
\* ------------------------------------------------------------------------

\* GS1 Group Separator character (ASCII 29)
GS == "<GS>"

Digits == {"0", "1", "2", "3", "4", "5", "6", "7", "8", "9"}

\* White space as String.prototype.trim and parseInt see it
WhiteSpace == {" "}

Char == Digits \cup WhiteSpace \cup
        {GS, "]", "d", "Q", "C", "A", "B", "L", "O", "T", "S", "X",
         "a", "b", "h", "e", "l", "o", "-", "+"}

\* null where a string is expected
NULL == <<"null">>

DigitChars == <<"0", "1", "2", "3", "4", "5", "6", "7", "8", "9">>

DigitValue(c) == (CHOOSE i \in 1..10 : DigitChars[i] = c) - 1

Min(a, b) == IF a < b THEN a ELSE b

\* s.slice(from, to) for 0 <= from, 0 <= to: zero-based, end exclusive, clamped
Slice(s, from, to) == SubSeq(s, Min(from, Len(s)) + 1, Min(to, Len(s)))

\* s.startsWith(p)
StartsWith(s, p) == Len(s) >= Len(p) /\ SubSeq(s, 1, Len(p)) = p

\* s.indexOf(c, from): zero-based index of the first c at or after from, or -1
IndexOf(s, c, from) ==
    LET hits == {i \in from..(Len(s) - 1) : s[i + 1] = c}
    IN  IF hits = {} THEN -1 ELSE CHOOSE i \in hits : \A j \in hits : i <= j

RECURSIVE TrimStart(_)
TrimStart(s) ==
    IF s # <<>> /\ Head(s) \in WhiteSpace THEN TrimStart(Tail(s)) ELSE s

RECURSIVE TrimEnd(_)
TrimEnd(s) ==
    IF s # <<>> /\ s[Len(s)] \in WhiteSpace
    THEN TrimEnd(SubSeq(s, 1, Len(s) - 1)) ELSE s

\* s.trim()
Trim(s) == TrimEnd(TrimStart(s))

\* /^\d+/ : the longest prefix of decimal digits
RECURSIVE LeadingDigits(_)
LeadingDigits(s) ==
    IF s # <<>> /\ Head(s) \in Digits
    THEN <<Head(s)>> \o LeadingDigits(Tail(s)) ELSE <<>>

RECURSIVE DigitsToNat(_)
DigitsToNat(ds) ==
    IF ds = <<>> THEN 0
    ELSE 10 * DigitsToNat(SubSeq(ds, 1, Len(ds) - 1)) + DigitValue(ds[Len(ds)])

NaN == [nan |-> TRUE, val |-> 0]

\* Number.parseInt(s, 10): leading white space skipped, an optional sign, then
\* the longest run of digits; NaN when there is no digit
parseInt(s) ==
    LET t    == TrimStart(s)
        sign == t # <<>> /\ Head(t) \in {"+", "-"}
        ds   == LeadingDigits(IF sign THEN Tail(t) ELSE t)
        n    == DigitsToNat(ds)
    IN  IF ds = <<>> THEN NaN
        ELSE [nan |-> FALSE, val |-> IF sign /\ Head(t) = "-" THEN 0 - n ELSE n]

RECURSIVE NatToString(_)
NatToString(n) ==
    IF n < 10 THEN <<DigitChars[n + 1]>>
    ELSE NatToString(n \div 10) \o <<DigitChars[(n % 10) + 1]>>

\* String(n) for an integer n
NumberToString(n) ==
    IF n < 0 THEN <<"-">> \o NatToString(0 - n) ELSE NatToString(n)

\* const pad = (n) => String(n).padStart(2, "0")
pad(n) ==
    LET s == NumberToString(n)
    IN  IF Len(s) >= 2 THEN s ELSE <<"0">> \o s

\* ECMAScript day arithmetic behind new Date(year, monthIndex, 0).getDate()
InLeapYear(year) ==
    (year % 4 = 0 /\ year % 100 # 0) \/ year % 400 = 0

\* days of the month with zero-based index m0 (0 = January)
DaysInMonthIndex(year, m0) ==
    IF m0 = 1 THEN (IF InLeapYear(year) THEN 29 ELSE 28)
    ELSE IF m0 \in {3, 5, 8, 10} THEN 30 ELSE 31

DateDayZeroMut(year, monthIndex) == DaysInMonthIndex(year, monthIndex % 12)

\* new Date(year, monthIndex, 0).getDate() for monthIndex in 1..12: day 0 of a
\* month is the day before its first day, the last day of the month before it
DateDayZero(year, monthIndex) == DaysInMonthIndex(year, monthIndex - 1)

\* ------------------------------------------------------------------------
\* gs1-parser.ts
\* ------------------------------------------------------------------------

\* Fixed-length AIs: AI code -> data length
FIXED_LENGTH_AIS ==
    (<<"0", "1">> :> 14) @@ (<<"0", "2">> :> 14) @@ (<<"1", "7">> :> 6) @@ (<<"1", "1">> :> 6) @@
    (<<"1", "3">> :> 6) @@ (<<"1", "5">> :> 6) @@ (<<"1", "6">> :> 6)

\* Variable-length AIs
VARIABLE_AIS == {<<"1", "0">>, <<"2", "1">>, <<"2", "2">>, <<"3", "0">>, <<"3", "7">>}

\* the symbology prefixes stripFnc1Prefix knows
SymbologyPrefixes == {<<"]", "d", "2">>, <<"]", "Q", "3">>, <<"]", "C", "1">>}

\* white space before the symbology prefix is dropped
stripFnc1PrefixTrimmed(data) ==
    LET t == TrimStart(data)
    IN  IF \E p \in SymbologyPrefixes : StartsWith(t, p)
        THEN Slice(t, Len(CHOOSE p \in SymbologyPrefixes : StartsWith(t, p)), Len(t))
        ELSE t

\* Strip FNC1 symbology prefix from raw scanner output
stripFnc1Prefix(data) ==
    IF \E p \in SymbologyPrefixes : StartsWith(data, p)
    THEN Slice(data, 3, Len(data))
    ELSE data

\* /^0340\d{10}/.test(data)
IsBare0340Gtin(data) ==
    /\ StartsWith(data, <<"0", "3", "4", "0">>)
    /\ Len(data) >= 14
    /\ \A i \in 5..14 : data[i] \in Digits

ensureAi01PrefixMut(data) ==
    IF StartsWith(data, <<"0", "1">>) THEN data
    ELSE IF IsBare0340Gtin(data) THEN data
    ELSE NULL

\* Ensure AI 01 prefix is present; NULL if not a GS1 string
ensureAi01Prefix(data) ==
    IF StartsWith(data, <<"0", "1">>) THEN data
    ELSE IF IsBare0340Gtin(data) THEN <<"0", "1">> \o data
    ELSE NULL

gtinToCip13Mut(gtin) == Slice(gtin, 1, 14)

\* Extract CIP13 from a 14-digit GTIN (strip leading indicator digit)
gtinToCip13(gtin) ==
    IF Len(gtin) = 14 THEN Slice(gtin, 1, 14) ELSE NULL

parseGs1DateNoMonthCheck(yymmdd) ==
    IF Len(yymmdd) # 6 THEN NULL
    ELSE
      LET yy == parseInt(Slice(yymmdd, 0, 2))
          mm == parseInt(Slice(yymmdd, 2, 4))
          dd == parseInt(Slice(yymmdd, 4, 6))
      IN  IF yy.nan \/ mm.nan \/ dd.nan THEN NULL
          ELSE
            LET year == IF yy.val < 50 THEN 2000 + yy.val ELSE 1900 + yy.val
                day  == IF dd.val = 0 THEN DateDayZero(year, mm.val) ELSE dd.val
            IN  NumberToString(year) \o <<"-">> \o pad(mm.val) \o <<"-">> \o pad(day)

parseGs1DatePivotMut(yymmdd) ==
    IF Len(yymmdd) # 6 THEN NULL
    ELSE
      LET yy == parseInt(Slice(yymmdd, 0, 2))
          mm == parseInt(Slice(yymmdd, 2, 4))
          dd == parseInt(Slice(yymmdd, 4, 6))
      IN  IF yy.nan \/ mm.nan \/ dd.nan THEN NULL
          ELSE IF mm.val < 1 \/ mm.val > 12 THEN NULL
          ELSE
            LET year == IF yy.val <= 50 THEN 2000 + yy.val ELSE 1900 + yy.val
                day  == IF dd.val = 0 THEN DateDayZero(year, mm.val) ELSE dd.val
            IN  NumberToString(year) \o <<"-">> \o pad(mm.val) \o <<"-">> \o pad(day)

\* Parse a GS1 date (YYMMDD) into an ISO date string (YYYY-MM-DD); DD = 00 is
\* the last day of the month; YY < 50 is 20YY, YY >= 50 is 19YY
parseGs1Date(yymmdd) ==
    IF Len(yymmdd) # 6 THEN NULL
    ELSE
      LET yy == parseInt(Slice(yymmdd, 0, 2))
          mm == parseInt(Slice(yymmdd, 2, 4))
          dd == parseInt(Slice(yymmdd, 4, 6))
      IN  IF yy.nan \/ mm.nan \/ dd.nan THEN NULL
          ELSE IF mm.val < 1 \/ mm.val > 12 THEN NULL
          ELSE
            LET year == IF yy.val < 50 THEN 2000 + yy.val ELSE 1900 + yy.val
                day  == IF dd.val = 0 THEN DateDayZero(year, mm.val) ELSE dd.val
            IN  NumberToString(year) \o <<"-">> \o pad(mm.val) \o <<"-">> \o pad(day)

\* const empty: Gs1ParseResult
empty ==
    [cip13 |-> NULL, expiryDate |-> NULL, batchNumber |-> NULL,
     serialNumber |-> NULL, gtin |-> NULL, isGs1 |-> FALSE]

InitialResultMut == empty

\* const result = { ...empty, isGs1: true }
InitialResult == [empty EXCEPT !.isGs1 = TRUE]

processFixedAiContainedGtin(ai, value, result) ==
    IF ai \in {<<"0", "1">>, <<"0", "2">>}
    THEN [result EXCEPT !.gtin = value, !.cip13 = gtinToCip13(value)]
    ELSE IF ai = <<"1", "7">>
    THEN [result EXCEPT !.expiryDate = parseGs1Date(value)]
    ELSE result

\* Process a fixed-length AI segment and update the result object
processFixedAi(ai, value, result) ==
    IF ai = <<"0", "1">>
    THEN [result EXCEPT !.gtin = value, !.cip13 = gtinToCip13(value)]
    ELSE IF ai = <<"1", "7">>
    THEN [result EXCEPT !.expiryDate = parseGs1Date(value)]
    ELSE result

\* a batch or serial number once set is kept
processVariableAiFirstWins(ai, value, result) ==
    IF ai = <<"1", "0">> /\ result.batchNumber = NULL
    THEN [result EXCEPT !.batchNumber = value]
    ELSE IF ai = <<"2", "1">> /\ result.serialNumber = NULL
    THEN [result EXCEPT !.serialNumber = value]
    ELSE result

\* Process a variable-length AI segment and update the result object
processVariableAi(ai, value, result) ==
    IF ai = <<"1", "0">> THEN [result EXCEPT !.batchNumber = value]
    ELSE IF ai = <<"2", "1">> THEN [result EXCEPT !.serialNumber = value]
    ELSE result

\* the cursor after a field without a closing GS is taken from indexOf's -1
readVariableFieldRestarts(data, pos) ==
    LET gsPos  == IndexOf(data, GS, pos)
        endPos == IF gsPos = -1 THEN Len(data) ELSE gsPos
    IN  [value   |-> Slice(data, pos, endPos),
         nextPos |-> gsPos + 1]

readVariableFieldMut(data, pos) ==
    LET gsPos  == IndexOf(data, GS, pos)
        endPos == IF gsPos = -1 THEN Len(data) ELSE gsPos
    IN  [value   |-> Slice(data, pos, endPos),
         nextPos |-> IF gsPos = -1 THEN Len(data) ELSE gsPos]

\* Read a variable-length field until GS separator or end of string
readVariableField(data, pos) ==
    LET gsPos  == IndexOf(data, GS, pos)
        endPos == IF gsPos = -1 THEN Len(data) ELSE gsPos
    IN  [value   |-> Slice(data, pos, endPos),
         nextPos |-> IF gsPos = -1 THEN Len(data) ELSE gsPos + 1]

ScanStepUnknownAsVariable(data, pos, result) ==
    LET ai == Slice(data, pos, pos + 2)
    IN  IF ai \in DOMAIN FIXED_LENGTH_AIS
        THEN LET len == FIXED_LENGTH_AIS[ai]
             IN  [pos    |-> pos + 2 + len,
                  result |-> processFixedAi(ai, Slice(data, pos + 2, pos + 2 + len), result),
                  brk    |-> FALSE]
        ELSE LET f == readVariableField(data, pos + 2)
             IN  [pos    |-> f.nextPos,
                  result |-> processVariableAi(ai, f.value, result),
                  brk    |-> FALSE]

\* One iteration of the while loop of parseGs1DataMatrix at cursor pos:
\* the new cursor and result, and whether the loop was left by break
ScanStep(data, pos, result) ==
    LET ai == Slice(data, pos, pos + 2)
    IN  IF ai \in DOMAIN FIXED_LENGTH_AIS
        THEN LET len == FIXED_LENGTH_AIS[ai]
             IN  [pos    |-> pos + 2 + len,
                  result |-> processFixedAi(ai, Slice(data, pos + 2, pos + 2 + len), result),
                  brk    |-> FALSE]
        ELSE IF ai \in VARIABLE_AIS
        THEN LET f == readVariableField(data, pos + 2)
             IN  [pos    |-> f.nextPos,
                  result |-> processVariableAi(ai, f.value, result),
                  brk    |-> FALSE]
        ELSE [pos |-> pos, result |-> result, brk |-> TRUE]

\* The while loop of parseGs1DataMatrix run from cursor pos to its end
RECURSIVE ScanFields(_, _, _)
ScanFields(data, pos, result) ==
    IF pos < Len(data)
    THEN LET s == ScanStep(data, pos, result)
         IN  IF s.brk THEN result ELSE ScanFields(data, s.pos, s.result)
    ELSE result

TooShortMut(raw) == raw = <<>> \/ Len(raw) < 14

\* !raw || raw.length < 16
TooShort(raw) == raw = <<>> \/ Len(raw) < 16

\* Parse a GS1 DataMatrix string into structured fields
parseGs1DataMatrix(raw) ==
    IF TooShort(raw) THEN empty
    ELSE LET data == ensureAi01Prefix(stripFnc1Prefix(raw))
         IN  IF data = NULL THEN empty
             ELSE ScanFields(data, 0, InitialResult)

isCip13Mut(code) ==
    /\ Len(code) = 13
    /\ \A i \in 1..13 : code[i] \in Digits

\* Is the code a plain CIP13 barcode: /^\d{13}$/ and starts with 340
isCip13(code) ==
    /\ Len(code) = 13
    /\ \A i \in 1..13 : code[i] \in Digits
    /\ StartsWith(code, <<"3", "4", "0">>)

\* parseScanResult returns null
NullScan == [source |-> "null"]

\* gs1.isGs1 && gs1.cip13 (a string is truthy when it is not empty)
Gs1Usable(gs1) == gs1.isGs1 /\ gs1.cip13 # NULL /\ gs1.cip13 # <<>>

classifyMut(rawCode, gs1) ==
    IF gs1.isGs1
    THEN [cip13 |-> gs1.cip13, expiryDate |-> gs1.expiryDate,
          batchNumber |-> gs1.batchNumber, source |-> "datamatrix"]
    ELSE LET cleaned == Trim(rawCode)
         IN  IF isCip13(cleaned)
             THEN [cip13 |-> cleaned, expiryDate |-> NULL,
                   batchNumber |-> NULL, source |-> "barcode"]
             ELSE NullScan

classifySerialMut(rawCode, gs1) ==
    IF Gs1Usable(gs1)
    THEN [cip13 |-> gs1.cip13, expiryDate |-> gs1.expiryDate,
          batchNumber |-> gs1.serialNumber, source |-> "datamatrix"]
    ELSE LET cleaned == Trim(rawCode)
         IN  IF isCip13(cleaned)
             THEN [cip13 |-> cleaned, expiryDate |-> NULL,
                   batchNumber |-> NULL, source |-> "barcode"]
             ELSE NullScan

\* The body of parseScanResult once parseGs1DataMatrix(rawCode) returned gs1
classify(rawCode, gs1) ==
    IF Gs1Usable(gs1)
    THEN [cip13 |-> gs1.cip13, expiryDate |-> gs1.expiryDate,
          batchNumber |-> gs1.batchNumber, source |-> "datamatrix"]
    ELSE LET cleaned == Trim(rawCode)
         IN  IF isCip13(cleaned)
             THEN [cip13 |-> cleaned, expiryDate |-> NULL,
                   batchNumber |-> NULL, source |-> "barcode"]
             ELSE NullScan

\* Extract a CIP13 from any scanned code
parseScanResult(rawCode) == classify(rawCode, parseGs1DataMatrix(rawCode))

\* ------------------------------------------------------------------------
\* Scanned texts the model feeds to parseScanResult
\* ------------------------------------------------------------------------

\* at most this many AI fields follow the trade item code of a composed scan
MaxFields == 3

\* day and month numbers of the AI 17 values tried: 0..MaxDay, 0..MaxMonth
MaxDay == 32

MaxMonth == 13

\* GTIN-14 of the parser's example scan, one outside the 0340 family, one
\* with a character that is no digit, and one cut short
GtinFr == <<"0", "3", "4", "0", "0", "9", "3", "4", "0", "1", "2", "3", "0", "8">>

GtinOther == <<"1", "3", "4", "0", "0", "9", "3", "4", "0", "1", "2", "3", "0", "8">>

GtinNonDigit == <<"0", "3", "4", "0", "0", "9", "3", "4", "0", "1", "2", "3", "0", "X">>

GtinShort == <<"0", "3", "4", "0", "0", "9", "3", "4", "0", "1", "2">>

TwoDigits(n) == <<DigitChars[(n \div 10) + 1], DigitChars[(n % 10) + 1]>>

\* two-digit years tried, on both sides of the century pivot, leap and not
Years == {0, 23, 24, 27, 49, 50, 96, 99}

DigitDates ==
    {TwoDigits(y) \o TwoDigits(m) \o TwoDigits(d) :
        y \in Years, m \in 0..MaxMonth, d \in 0..MaxDay}

\* AI 17 values that are not six digits
OddDates == {<<"2", "3", "0", "6", "-", "1">>, <<"2", "3", "0", "6", " ", "5">>, <<"a", "b", "0", "6", "3", "0">>, <<"2", "3", "a", "6", "1", "5">>, <<"-", "1", "0", "6", "1", "5">>}

\* batch and serial texts, free of GS
Texts == {<<>>, <<"2", "1", " ", "A">>, <<"L", "O", "T">>}

Fields ==
    {<<"1", "7", "2", "3", "0", "6", "3", "0">>, <<"1", "7", "2", "3", "1", "3", "1", "5">>} \cup
    {<<"1", "0">> \o t \o <<GS>> : t \in Texts} \cup
    {<<"2", "1">> \o t : t \in Texts} \cup
    {<<"9", "9", "X">>, <<"1", "1", "2", "3", "0", "1", "0", "1">>, <<"3", "0", "5", GS>>, <<"0", "1">> \o GtinOther}

RECURSIVE Tails(_)
Tails(n) ==
    IF n = 0 THEN {<<>>}
    ELSE LET shorter == Tails(n - 1)
         IN  shorter \cup {t \o f : t \in shorter, f \in Fields}

Prefixes == SymbologyPrefixes \cup {<<>>, <<" ">>, <<"]", "d", "1">>}

Gtins == {GtinFr, GtinOther, GtinNonDigit, GtinShort}

Heads == Gtins \cup {<<"0", "1">> \o g : g \in Gtins}

\* a prefix, a trade item code with or without its AI, at most one field
FramedInputs == {p \o h \o t : p \in Prefixes, h \in Heads, t \in Tails(1)}

\* the example trade item code, with or without its AI, and up to MaxFields fields
FieldInputs == {h \o t : h \in {GtinFr, <<"0", "1">> \o GtinFr}, t \in Tails(MaxFields)}

\* AI 01, AI 17 with every date value tried, AI 10
DateInputs ==
    {<<"0", "1">> \o GtinFr \o <<"1", "7">> \o d \o <<"1", "0", "L", "O", "T">> : d \in DigitDates \cup OddDates}

PlainInputs ==
    {<<>>, <<" ">>, <<"h", "e", "l", "l", "o">>, <<"h", "e", "l", "l", "o", " ", "h", "e", "l", "l", "o", " ", "h", "e", "l", "l", "o">>, <<"3", "4", "0", "0", "9", "3", "0", "0", "0", "0", "0", "0", "1">>,
     <<" ", " ", "3", "4", "0", "0", "9", "3", "0", "0", "0", "0", "0", "0", "1", " ", " ">>, <<"3", "4", "0", "0", "9", "3", "0", "0", "0", "0", "0", "0", "1", " ", " ", " ">>, <<"1", "2", "3", "4", "5", "6", "7", "8", "9", "0", "1", "2", "3">>,
     <<"3", "4", "0", "0", "9", "3", "0", "0", "0", "0", "0", "0", "A">>, <<"3", "4", "0", "0", "9", "3", "0", "0", "0", "0", "0", "0", "1", "0">>, <<"]", "d", "2", "3", "4", "0", "0", "9", "3", "0", "0", "0", "0", "0", "0", "1">>}

\* complete fields of the AIs whose values the parser keeps
RepeatFields ==
    {<<"0", "1">> \o GtinOther, <<"0", "1">> \o GtinFr, <<"1", "7", "2", "3", "0", "6", "3", "0">>, <<"1", "7", "2", "4", "0", "2", "2", "9">>, <<"1", "7", "2", "3", "1", "3", "1", "5">>,
     <<"1", "0", "L", "O", "T", GS>>, <<"1", "0", "B", "2", GS>>, <<"2", "1", "S", "1", GS>>, <<"2", "1", "S", "2", GS>>}

\* a scan in which an AI comes twice, with or without a field between the
\* two occurrences and after them
DuplicateInputs ==
    {<<"0", "1">> \o GtinFr \o f \o m \o g \o t :
        f \in RepeatFields, g \in RepeatFields,
        m \in {<<>>, <<"1", "1", "2", "3", "0", "1", "0", "1">>}, t \in {<<>>, <<"1", "5", "2", "5", "0", "1", "0", "1">>}}

Inputs ==
    FramedInputs \cup FieldInputs \cup DateInputs \cup PlainInputs
    \cup DuplicateInputs

\* ------------------------------------------------------------------------
\* One call parseScanResult(raw), the loop of parseGs1DataMatrix step by step
\* ------------------------------------------------------------------------

VARIABLES raw, pc, data, pos, result, scan

\* the inventory table, the row id generator, the requests in progress and
\* the restock notifications of the API's InventoryService
VARIABLES inventory, nextRowId, requests, restockAlerts

\* the state of the web application's bulk scan store
VARIABLES active, direction, items, scanning

\* the CameraScanner component: its active prop, the runs of its effect, the
\* stream ref, the camera streams not stopped, the refs of the last accepted
\* scan, the clock and the calls of onScan
VARIABLES scannerActive, effects, streamRef, liveStreams,
          lastScan, lastScanTime, now, onScanCalls

\* one call of BdpmService.fetchWithRetry: the loop counter, where the call
\* stands, the last error caught, what the call returned or threw, the HTTP
\* requests sent and the delay slept last
VARIABLES attempt, fetchPc, lastError, fetchResult, requestsMade, sleepMs

\* AuthService: the challenge map, the clock (Date.now()), and a record of
\* the tokens issued, the tokens presented and the last verify call
VARIABLES challenges, authClock, nextToken, issued, presented, lastVerify,
          verifyCount

\* the Scan page: its React state, the lookup request of handleCameraScan
\* (with the scan it was started for) and the state of addMutation
VARIABLES step, mode, scanResult, selectedMedicine, formData, lookupError,
          lookupPc, lookupOf, addPc

parserVars == <<raw, pc, data, pos, result, scan>>

pageVars == <<step, mode, scanResult, selectedMedicine, formData, lookupError,
              lookupPc, lookupOf, addPc>>

authVars == <<challenges, authClock, nextToken, issued, presented, lastVerify,
              verifyCount>>

retryVars == <<attempt, fetchPc, lastError, fetchResult, requestsMade, sleepMs>>

cameraVars == <<scannerActive, effects, streamRef, liveStreams,
                lastScan, lastScanTime, now, onScanCalls>>

\* the variables of the components modelled after the store
laterVars == <<cameraVars, retryVars, authVars, pageVars>>

inventoryVars == <<inventory, nextRowId, requests, restockAlerts>>

storeVars == <<active, direction, items, scanning>>

vars == <<parserVars, inventoryVars, storeVars, laterVars>>

\* no scan is being parsed
ParserIdle ==
    /\ raw = <<>>
    /\ pc = "idle"
    /\ data = <<>>
    /\ pos = 0
    /\ result = empty
    /\ scan = NullScan

\* no request is being served
InventoryIdle ==
    /\ inventory = {}
    /\ nextRowId = 1
    /\ requests = <<>>
    /\ restockAlerts = {}

\* the store as created
StoreIdle ==
    /\ active = FALSE
    /\ direction = "add"
    /\ items = <<>>
    /\ scanning = FALSE

\* the scanner as mounted, inactive
CameraIdle ==
    /\ scannerActive = FALSE
    /\ effects = <<>>
    /\ streamRef = 0
    /\ liveStreams = {}
    /\ lastScan = <<>>
    /\ lastScanTime = 0
    /\ now = 0
    /\ onScanCalls = <<>>

\* no fetchWithRetry call
RetryIdle ==
    /\ attempt = 0
    /\ fetchPc = "idle"
    /\ lastError = [axios |-> FALSE, status |-> 0, retryAfter |-> 0, at |-> 0]
    /\ fetchResult = [axios |-> FALSE, status |-> 0, retryAfter |-> 0, at |-> 0]
    /\ requestsMade = 0
    /\ sleepMs = 0

\* no verify call made yet
NoVerify ==
    [call |-> "none", token |-> 0, at |-> 0, issuedAt |-> 0, wasIssued |-> FALSE,
     wasPresented |-> FALSE, outcome |-> "none"]

\* a new AuthService
AuthIdle ==
    /\ challenges = <<>>
    /\ authClock = 0
    /\ nextToken = 1
    /\ issued = <<>>
    /\ presented = {}
    /\ lastVerify = NoVerify
    /\ verifyCount = 0

\* useState(null) of scanResult
NoScanResult ==
    [cip13 |-> NULL, source |-> "none", expiryDate |-> NULL, batchNumber |-> NULL]

\* the form as useState and the resets leave it
EmptyForm == [batchNumber |-> <<>>, expiryDate |-> <<>>, quantity |-> 1]

\* the Scan page as first rendered
PageIdle ==
    /\ step = "choose"
    /\ mode = "idle"
    /\ scanResult = NoScanResult
    /\ selectedMedicine = FALSE
    /\ formData = EmptyForm
    /\ lookupError = FALSE
    /\ lookupPc = "none"
    /\ lookupOf = NoScanResult
    /\ addPc = "idle"

LaterIdle == CameraIdle /\ RetryIdle /\ AuthIdle /\ PageIdle

Init ==
    /\ raw \in Inputs
    /\ pc = "start"
    /\ data = <<>>
    /\ pos = 0
    /\ result = empty
    /\ scan = NullScan
    /\ InventoryIdle
    /\ StoreIdle
    /\ LaterIdle

\* parseGs1DataMatrix returns empty: text too short or not GS1
RejectInput ==
    /\ pc = "start"
    /\ TooShort(raw) \/ ensureAi01Prefix(stripFnc1Prefix(raw)) = NULL
    /\ result' = empty
    /\ pc' = "parsed"
    /\ UNCHANGED <<raw, data, pos, scan>>
    /\ UNCHANGED <<inventoryVars, storeVars, laterVars>>

\* parseGs1DataMatrix normalizes the text and enters its loop
StartScan ==
    /\ pc = "start"
    /\ ~TooShort(raw)
    /\ ensureAi01Prefix(stripFnc1Prefix(raw)) # NULL
    /\ data' = ensureAi01Prefix(stripFnc1Prefix(raw))
    /\ pos' = 0
    /\ result' = InitialResult
    /\ pc' = "loop"
    /\ UNCHANGED <<raw, scan>>
    /\ UNCHANGED <<inventoryVars, storeVars, laterVars>>

\* loop iteration on a fixed-length AI
FixedField ==
    /\ pc = "loop"
    /\ pos < Len(data)
    /\ Slice(data, pos, pos + 2) \in DOMAIN FIXED_LENGTH_AIS
    /\ pos' = ScanStep(data, pos, result).pos
    /\ result' = ScanStep(data, pos, result).result
    /\ UNCHANGED <<raw, pc, data, scan>>
    /\ UNCHANGED <<inventoryVars, storeVars, laterVars>>

\* loop iteration on a variable-length AI
VariableField ==
    /\ pc = "loop"
    /\ pos < Len(data)
    /\ Slice(data, pos, pos + 2) \notin DOMAIN FIXED_LENGTH_AIS
    /\ Slice(data, pos, pos + 2) \in VARIABLE_AIS
    /\ pos' = ScanStep(data, pos, result).pos
    /\ result' = ScanStep(data, pos, result).result
    /\ UNCHANGED <<raw, pc, data, scan>>
    /\ UNCHANGED <<inventoryVars, storeVars, laterVars>>

\* unknown AI: break
UnknownAi ==
    /\ pc = "loop"
    /\ pos < Len(data)
    /\ ScanStep(data, pos, result).brk
    /\ pc' = "parsed"
    /\ UNCHANGED <<raw, data, pos, result, scan>>
    /\ UNCHANGED <<inventoryVars, storeVars, laterVars>>

\* the cursor reached the end of the text
EndOfData ==
    /\ pc = "loop"
    /\ pos >= Len(data)
    /\ pc' = "parsed"
    /\ UNCHANGED <<raw, data, pos, result, scan>>
    /\ UNCHANGED <<inventoryVars, storeVars, laterVars>>

\* parseScanResult decides on the GS1 result or the plain barcode
Classify ==
    /\ pc = "parsed"
    /\ scan' = classify(raw, result)
    /\ pc' = "done"
    /\ UNCHANGED <<raw, data, pos, result>>
    /\ UNCHANGED <<inventoryVars, storeVars, laterVars>>

Next ==
    \/ RejectInput
    \/ StartScan
    \/ FixedField
    \/ VariableField
    \/ UnknownAi
    \/ EndOfData
    \/ Classify

Spec == Init /\ [][Next]_vars

\* ------------------------------------------------------------------------
\* InventoryService: create, bulkAdd, bulkRemove
\* ------------------------------------------------------------------------

\* largest number of items in a bulk request of the model
MaxItems == 2

\* the medicines the BDPM lookup can resolve
Medicines ==
    { [cis |-> <<"6", "0", "0", "0", "1", "2", "3", "4">>, cip13 |-> <<"3", "4", "0", "0", "9", "3", "0", "0", "0", "0", "0", "0", "1">>],
      [cis |-> <<"6", "0", "0", "0", "5", "6", "7", "8">>, cip13 |-> <<"3", "4", "0", "0", "9", "3", "0", "0", "0", "0", "0", "0", "2">>] }

NotFoundException(kind, code) ==
    [message |-> <<"Medicine with ", kind, code, " not found in BDPM database.">>]

IsException(x) == "message" \in DOMAIN x

\* BdpmService.findByCode: thirteen digits are looked up as a CIP13, anything
\* else as a CIS; an unknown code throws
findByCode(code) ==
    LET trimmed == Trim(code)
    IN  IF Len(trimmed) = 13 /\ \A i \in 1..13 : trimmed[i] \in Digits
        THEN IF \E m \in Medicines : m.cip13 = trimmed
             THEN CHOOSE m \in Medicines : m.cip13 = trimmed
             ELSE NotFoundException("CIP13 ", trimmed)
        ELSE IF \E m \in Medicines : m.cis = trimmed
             THEN CHOOSE m \in Medicines : m.cis = trimmed
             ELSE NotFoundException("CIS ", trimmed)

\* findOne found nothing
NoRow == [id |-> 0]

\* the exception create throws before it reads the inventory, or NoRow
createThrows(dto) ==
    IF dto.cis = <<>>
    THEN [message |-> "CIS is required"]
    ELSE IF IsException(findByCode(dto.cis)) THEN findByCode(dto.cis) ELSE NoRow

\* repository.save: insert, or replace the row of the same id
save(table, row) == {x \in table : x.id # row.id} \cup {row}

\* repository.remove
remove(table, row) == {x \in table : x.id # row.id}

\* the request has finished its current item with the given outcome
Advance(r, outcome) ==
    [r EXCEPT !.results = Append(@, outcome),
              !.idx = @ + 1,
              !.found = NoRow,
              !.pc = IF r.idx = Len(r.items) THEN "done" ELSE "find"]

\* create threw: bulkAdd catches and reports, a plain create propagates
RejectAddUncaught(r, error) ==
    [r EXCEPT !.pc = "threw"]

RejectAdd(r, error) ==
    IF r.kind = "create"
    THEN [r EXCEPT !.pc = "threw"]
    ELSE Advance(r, [cis |-> r.items[r.idx].cis, success |-> FALSE,
                     error |-> error.message])

\* bulkRemove deletes the row instead of saving it
DeletesRowMut(quantity) == quantity < 0

DeletesRow(quantity) == quantity <= 0

\* inputs
AddEntries ==
    { [cis |-> c, quantity |-> 1] :
        c \in {<<"6", "0", "0", "0", "1", "2", "3", "4">>, <<"3", "4", "0", "0", "9", "3", "0", "0", "0", "0", "0", "0", "1">>, <<"6", "0", "0", "0", "5", "6", "7", "8">>, <<"9", "9", "9", "9", "9", "9", "9", "9">>, <<>>} }
    \cup { [cis |-> <<"6", "0", "0", "0", "1", "2", "3", "4">>, quantity |-> 2] }

RemoveEntries ==
    [cis : {<<"6", "0", "0", "0", "1", "2", "3", "4">>, <<"6", "0", "0", "0", "5", "6", "7", "8">>}, quantity : {1, 2}]

ItemLists(entries, n) == UNION { [1..k -> entries] : k \in 1..n }

NewRequest(kind, list) ==
    [kind |-> kind, items |-> list, idx |-> 1, pc |-> "find",
     found |-> NoRow, results |-> <<>>]

RequestsUpTo(n) ==
    { NewRequest("create", <<e>>) : e \in AddEntries }
    \cup { NewRequest("bulkAdd", l) : l \in ItemLists(AddEntries, n) }
    \cup { NewRequest("bulkRemove", l) : l \in ItemLists(RemoveEntries, n) }

\* the inventory before the requests arrive
StoredInventories ==
    { {},
      { [id |-> 1, cis |-> <<"6", "0", "0", "0", "1", "2", "3", "4">>, quantity |-> 2, restockAlert |-> TRUE] },
      { [id |-> 1, cis |-> <<"6", "0", "0", "0", "1", "2", "3", "4">>, quantity |-> 1, restockAlert |-> FALSE] } }

\* two requests are served concurrently; the second one has a single item
Clients == {1, 2}

InventoryInit ==
    /\ inventory \in StoredInventories
    /\ nextRowId = 2
    /\ \E first \in RequestsUpTo(MaxItems), second \in RequestsUpTo(1) :
           requests = <<first, second>>
    /\ restockAlerts = {}
    /\ ParserIdle
    /\ StoreIdle
    /\ LaterIdle

\* create rejects the item: no CIS, or the medicine lookup throws
CreateThrows(c) ==
    LET r == requests[c]
    IN  /\ r.pc = "find"
        /\ r.kind \in {"create", "bulkAdd"}
        /\ createThrows(r.items[r.idx]) # NoRow
        /\ requests' = [requests EXCEPT
                           ![c] = RejectAdd(r, createThrows(r.items[r.idx]))]
        /\ UNCHANGED <<inventory, nextRowId, restockAlerts>>
        /\ UNCHANGED <<parserVars, storeVars, laterVars>>

\* create resolves the medicine and reads the inventory row of its CIS
CreateFindOne(c) ==
    LET r == requests[c]
        matches == {x \in inventory : x.cis = findByCode(r.items[r.idx].cis).cis}
    IN  /\ r.pc = "find"
        /\ r.kind \in {"create", "bulkAdd"}
        /\ createThrows(r.items[r.idx]) = NoRow
        /\ \E existing \in (IF matches = {} THEN {NoRow} ELSE matches) :
               requests' = [requests EXCEPT ![c] = [r EXCEPT !.found = existing,
                                                             !.pc = "write"]]
        /\ UNCHANGED <<inventory, nextRowId, restockAlerts>>
        /\ UNCHANGED <<parserVars, storeVars, laterVars>>

\* create found a row: it saves it with the quantity raised
CreateIncrement(c) ==
    LET r == requests[c]
        dto == r.items[r.idx]
        saved == [r.found EXCEPT !.quantity = @ + dto.quantity]
    IN  /\ r.pc = "write"
        /\ r.kind \in {"create", "bulkAdd"}
        /\ r.found # NoRow
        /\ inventory' = save(inventory, saved)
        /\ requests' = [requests EXCEPT ![c] =
               Advance(r, [cis |-> dto.cis, success |-> TRUE, incremented |-> TRUE,
                           itemId |-> saved.id, quantity |-> saved.quantity])]
        /\ UNCHANGED <<nextRowId, restockAlerts>>
        /\ UNCHANGED <<parserVars, storeVars, laterVars>>

\* create found no row: it inserts a new one
CreateInsert(c) ==
    LET r == requests[c]
        dto == r.items[r.idx]
        saved == [id |-> nextRowId, cis |-> findByCode(dto.cis).cis,
                  quantity |-> dto.quantity, restockAlert |-> FALSE]
    IN  /\ r.pc = "write"
        /\ r.kind \in {"create", "bulkAdd"}
        /\ r.found = NoRow
        /\ inventory' = save(inventory, saved)
        /\ nextRowId' = nextRowId + 1
        /\ requests' = [requests EXCEPT ![c] =
               Advance(r, [cis |-> dto.cis, success |-> TRUE, incremented |-> FALSE,
                           itemId |-> saved.id, quantity |-> saved.quantity])]
        /\ UNCHANGED restockAlerts
        /\ UNCHANGED <<parserVars, storeVars, laterVars>>

\* bulkRemove finds no row of the entry's CIS
BulkRemoveNotFound(c) ==
    LET r == requests[c]
        cis == r.items[r.idx].cis
    IN  /\ r.pc = "find"
        /\ r.kind = "bulkRemove"
        /\ {x \in inventory : x.cis = cis} = {}
        /\ requests' = [requests EXCEPT ![c] =
               Advance(r, [cis |-> cis, success |-> FALSE,
                           error |-> "Not found in inventory"])]
        /\ UNCHANGED <<inventory, nextRowId, restockAlerts>>
        /\ UNCHANGED <<parserVars, storeVars, laterVars>>

\* bulkRemove reads the row of the entry's CIS
BulkRemoveFindOne(c) ==
    LET r == requests[c]
    IN  /\ r.pc = "find"
        /\ r.kind = "bulkRemove"
        /\ \E item \in {x \in inventory : x.cis = r.items[r.idx].cis} :
               requests' = [requests EXCEPT ![c] = [r EXCEPT !.found = item,
                                                             !.pc = "write"]]
        /\ UNCHANGED <<inventory, nextRowId, restockAlerts>>
        /\ UNCHANGED <<parserVars, storeVars, laterVars>>

\* the reduced quantity is zero or less: bulkRemove deletes the row
BulkRemoveDelete(c) ==
    LET r == requests[c]
        entry == r.items[r.idx]
        item == [r.found EXCEPT !.quantity = @ - entry.quantity]
    IN  /\ r.pc = "write"
        /\ r.kind = "bulkRemove"
        /\ DeletesRow(item.quantity)
        /\ inventory' = remove(inventory, item)
        /\ requests' = [requests EXCEPT ![c] =
               Advance(r, [cis |-> entry.cis, success |-> TRUE, removed |-> TRUE,
                           quantity |-> 0])]
        /\ UNCHANGED <<nextRowId, restockAlerts>>
        /\ UNCHANGED <<parserVars, storeVars, laterVars>>

\* otherwise bulkRemove saves the row and raises the restock alert when due
BulkRemoveSave(c) ==
    LET r == requests[c]
        entry == r.items[r.idx]
        item == [r.found EXCEPT !.quantity = @ - entry.quantity]
    IN  /\ r.pc = "write"
        /\ r.kind = "bulkRemove"
        /\ ~DeletesRow(item.quantity)
        /\ inventory' = save(inventory, item)
        /\ restockAlerts' = IF item.restockAlert /\ item.quantity <= 1
                            THEN restockAlerts \cup {item.id}
                            ELSE restockAlerts
        /\ requests' = [requests EXCEPT ![c] =
               Advance(r, [cis |-> entry.cis, success |-> TRUE, removed |-> FALSE,
                           quantity |-> item.quantity])]
        /\ UNCHANGED nextRowId
        /\ UNCHANGED <<parserVars, storeVars, laterVars>>

InventoryNext ==
    \E c \in Clients :
        \/ CreateThrows(c)
        \/ CreateFindOne(c)
        \/ CreateIncrement(c)
        \/ CreateInsert(c)
        \/ BulkRemoveNotFound(c)
        \/ BulkRemoveFindOne(c)
        \/ BulkRemoveDelete(c)
        \/ BulkRemoveSave(c)

SpecInventory == InventoryInit /\ [][InventoryNext]_vars

\* ------------------------------------------------------------------------
\* useBulkScanStore: the staging list of a bulk scan session
\* ------------------------------------------------------------------------

\* largest number of staged items in the model
MaxStaged == 2

\* ids produced by Date.now() and Math.random(): not guaranteed distinct
StagedIds == {"1767225600000-k3f9", "1767225600001-x0qz"}

\* what a scan hands to addItem
ScannedItems ==
    [cis : {<<"6", "0", "0", "0", "1", "2", "3", "4">>, <<"6", "0", "0", "0", "5", "6", "7", "8">>}, expiryDate : {NULL, <<"2", "0", "2", "7", "-", "0", "6", "-", "3", "0">>}]

ErrorMessages == {"Medicine not found"}

\* addItem: findIndex of a pending item of the same CIS found one
alreadyStagedConfirmed(list, item) ==
    \E i \in 1..Len(list) : list[i].cis = item.cis /\ list[i].status = "confirmed"

alreadyStaged(list, item) ==
    \E i \in 1..Len(list) : list[i].cis = item.cis /\ list[i].status = "pending"

newItem(item, id) ==
    [id |-> id, cis |-> item.cis, expiryDate |-> item.expiryDate,
     status |-> "pending", errorMessage |-> NULL]

StoreInit ==
    /\ StoreIdle
    /\ ParserIdle
    /\ InventoryIdle
    /\ LaterIdle

startSession(dir) ==
    /\ active' = TRUE
    /\ direction' = dir
    /\ items' = <<>>
    /\ scanning' = FALSE
    /\ UNCHANGED <<parserVars, inventoryVars, laterVars>>

endSession ==
    /\ active' = FALSE
    /\ items' = <<>>
    /\ scanning' = FALSE
    /\ direction' = "add"
    /\ UNCHANGED <<parserVars, inventoryVars, laterVars>>

setDirection(dir) ==
    /\ direction' = dir
    /\ UNCHANGED <<active, items, scanning>>
    /\ UNCHANGED <<parserVars, inventoryVars, laterVars>>

\* the items addItem leaves: the list as it is when the CIS is staged and
\* pending, else the new item in front
addItemTo(list, item, id) ==
    IF alreadyStaged(list, item)
    THEN list
    ELSE <<newItem(item, id)>> \o list

addItem(item, id) ==
    /\ Len(items) < MaxStaged
    /\ items' = addItemTo(items, item, id)
    /\ UNCHANGED <<active, direction, scanning>>
    /\ UNCHANGED <<parserVars, inventoryVars, laterVars>>

removeItem(id) ==
    /\ items' = SelectSeq(items, LAMBDA i : i.id # id)
    /\ UNCHANGED <<active, direction, scanning>>
    /\ UNCHANGED <<parserVars, inventoryVars, laterVars>>

markConfirmed(id) ==
    /\ items' = [k \in 1..Len(items) |->
                    IF items[k].id = id
                    THEN [items[k] EXCEPT !.status = "confirmed"]
                    ELSE items[k]]
    /\ UNCHANGED <<active, direction, scanning>>
    /\ UNCHANGED <<parserVars, inventoryVars, laterVars>>

markError(id, message) ==
    /\ items' = [k \in 1..Len(items) |->
                    IF items[k].id = id
                    THEN [items[k] EXCEPT !.status = "error",
                                          !.errorMessage = message]
                    ELSE items[k]]
    /\ UNCHANGED <<active, direction, scanning>>
    /\ UNCHANGED <<parserVars, inventoryVars, laterVars>>

markAllConfirmed ==
    /\ items' = [k \in 1..Len(items) |->
                    IF items[k].status = "pending"
                    THEN [items[k] EXCEPT !.status = "confirmed"]
                    ELSE items[k]]
    /\ UNCHANGED <<active, direction, scanning>>
    /\ UNCHANGED <<parserVars, inventoryVars, laterVars>>

clearConfirmed ==
    /\ items' = SelectSeq(items, LAMBDA i : i.status # "confirmed")
    /\ UNCHANGED <<active, direction, scanning>>
    /\ UNCHANGED <<parserVars, inventoryVars, laterVars>>

setScanning(flag) ==
    /\ scanning' = flag
    /\ UNCHANGED <<active, direction, items>>
    /\ UNCHANGED <<parserVars, inventoryVars, laterVars>>

StoreNext ==
    \/ \E dir \in {"add", "remove"} : startSession(dir)
    \/ endSession
    \/ \E dir \in {"add", "remove"} : setDirection(dir)
    \/ \E item \in ScannedItems, id \in StagedIds : addItem(item, id)
    \/ \E id \in StagedIds : removeItem(id)
    \/ \E id \in StagedIds : markConfirmed(id)
    \/ \E id \in StagedIds, message \in ErrorMessages : markError(id, message)
    \/ markAllConfirmed
    \/ clearConfirmed
    \/ \E flag \in BOOLEAN : setScanning(flag)

SpecStore == StoreInit /\ [][StoreNext]_vars

\* ---------------------------------------------------------------------
\* BdpmService.fetchWithRetry (apps/api/src/bdpm/bdpm.service.ts)
\* ---------------------------------------------------------------------

\* RETRY_CONFIG
maxRetriesOneMore == 3 + 1

maxRetries == 3

baseDelayMs == 500

maxDelayMs == 5000

\* error.response is undefined: a network error or the 10 s request timeout
NoResponse == 0

\* no Retry-After header on the response
NoHeader == 0

\* what a request can be rejected with: an AxiosError with a response status
\* (and, on a 429, a Retry-After of so many seconds), an AxiosError without a
\* response, or an error of another class
Failures ==
    {[axios |-> TRUE, status |-> s, retryAfter |-> NoHeader] :
        s \in {NoResponse, 400, 404, 429, 500, 501, 502, 503, 504}}
    \cup {[axios |-> TRUE, status |-> 429, retryAfter |-> h] : h \in {1, 30}}
    \cup {[axios |-> FALSE, status |-> NoResponse, retryAfter |-> NoHeader]}

\* Math.random() * baseDelay * 0.3, as a percentage of baseDelay
Jitters == {0, 15, 29}

RECURSIVE pow2(_)
pow2(n) == IF n = 0 THEN 1 ELSE 2 * pow2(n - 1)

\* delay = min(baseDelay + jitter, maxDelayMs)
backoffDelay(n, jitter) ==
    LET baseDelay == baseDelayMs * pow2(n)
    IN  Min(baseDelay + (baseDelay * jitter) \div 100, maxDelayMs)

\* what the catch block sleeps for
retryDelay(error, n, jitter) ==
    IF error.status = 429 /\ error.retryAfter # NoHeader
        THEN Min(error.retryAfter * 1000, maxDelayMs)
        ELSE backoffDelay(n, jitter)

\* the catch block rethrows at once: not an AxiosError, or a status below 500
\* other than 429
rethrownAtOnce(error) ==
    \/ ~error.axios
    \/ error.status # NoResponse /\ error.status < 500 /\ error.status # 429

RetryInit ==
    /\ ParserIdle
    /\ InventoryIdle
    /\ StoreIdle
    /\ CameraIdle
    /\ AuthIdle
    /\ PageIdle
    /\ attempt = 0
    /\ fetchPc = "request"
    /\ lastError = [axios |-> FALSE, status |-> 0, retryAfter |-> 0, at |-> 0]
    /\ fetchResult = [axios |-> FALSE, status |-> 0, retryAfter |-> 0, at |-> 0]
    /\ requestsMade = 0
    /\ sleepMs = 0

\* httpService.get resolves: the response is returned
RequestSucceeds ==
    /\ fetchPc = "request"
    /\ requestsMade' = requestsMade + 1
    /\ fetchResult' = [axios |-> FALSE, status |-> 200, retryAfter |-> NoHeader,
                       at |-> requestsMade + 1]
    /\ fetchPc' = "returned"
    /\ UNCHANGED <<attempt, lastError, sleepMs>>
    /\ UNCHANGED <<parserVars, inventoryVars, storeVars, cameraVars, authVars, pageVars>>

\* httpService.get rejects: the catch block
RequestFails(failure, jitter) ==
    /\ fetchPc = "request"
    /\ requestsMade' = requestsMade + 1
    /\ LET error == [axios |-> failure.axios, status |-> failure.status,
                     retryAfter |-> failure.retryAfter, at |-> requestsMade + 1]
       IN  /\ lastError' = error
           /\ IF rethrownAtOnce(error) \/ attempt >= maxRetries
                  THEN /\ fetchPc' = "threw"
                       /\ fetchResult' = error
                       /\ sleepMs' = sleepMs
                  ELSE /\ fetchPc' = "sleeping"
                       /\ fetchResult' = fetchResult
                       /\ sleepMs' = retryDelay(error, attempt, jitter)
    /\ UNCHANGED attempt
    /\ UNCHANGED <<parserVars, inventoryVars, storeVars, cameraVars, authVars, pageVars>>

\* the sleep's timer fires: attempt++ and the loop test; past the loop, throw
\* lastError
Wake ==
    /\ fetchPc = "sleeping"
    /\ attempt' = attempt + 1
    /\ IF attempt + 1 <= maxRetries
           THEN /\ fetchPc' = "request"
                /\ fetchResult' = fetchResult
           ELSE /\ fetchPc' = "threw"
                /\ fetchResult' = lastError
    /\ UNCHANGED <<lastError, requestsMade, sleepMs>>
    /\ UNCHANGED <<parserVars, inventoryVars, storeVars, cameraVars, authVars, pageVars>>

RetryNext ==
    \/ RequestSucceeds
    \/ \E failure \in Failures, jitter \in Jitters : RequestFails(failure, jitter)
    \/ Wake

\* every request ends (the HTTP module is registered with a 10 s timeout) and
\* every sleep is a timer
SpecRetry == RetryInit /\ [][RetryNext]_vars /\ WF_vars(RetryNext)

\* ---------------------------------------------------------------------
\* AuthService challenge store (apps/api/src/auth/auth.service.ts)
\* ---------------------------------------------------------------------

\* challenge tokens issued, clock advances and verify calls in one run
MaxTokens == 2

MaxAuthTicks == 2

MaxVerifies == 2

\* expiresAt: Date.now() + 5 * 60 * 1000
ChallengeTtlMs == 5 * 60 * 1000

\* a token no generate call returned
UnknownToken == 0

ChallengeInvalid == "Challenge expired or invalid"

\* what the rest of a verify call ends with once the challenge is accepted
RegistrationOutcomes == {"verified", "Registration verification failed"}

AuthenticationOutcomes ==
    {"verified", "Missing credential ID", "Unknown credential",
     "Authentication verification failed"}

\* Map.set, Map.delete
mapSet(m, key, value) ==
    [k \in DOMAIN m \cup {key} |-> IF k = key THEN value ELSE m[k]]

mapDeleteNothing(m, key) == m

mapDelete(m, key) == [k \in DOMAIN m \ {key} |-> m[k]]

\* !stored || stored.expiresAt < Date.now()
challengeRejected(m, token, t) ==
    \/ token \notin DOMAIN m
    \/ m[token].expiresAt < t

AuthInit ==
    /\ ParserIdle
    /\ InventoryIdle
    /\ StoreIdle
    /\ CameraIdle
    /\ RetryIdle
    /\ AuthIdle
    /\ PageIdle

\* the end of generateRegistrationOptions / generateAuthenticationOptions:
\* a new token is stored with its expiry
generateOptions(by) ==
    /\ nextToken <= MaxTokens
    /\ challenges' = mapSet(challenges, nextToken,
                            [expiresAt |-> authClock + ChallengeTtlMs])
    /\ issued' = mapSet(issued, nextToken, [by |-> by, at |-> authClock])
    /\ nextToken' = nextToken + 1
    /\ UNCHANGED <<authClock, presented, lastVerify, verifyCount>>
    /\ UNCHANGED <<parserVars, inventoryVars, storeVars, cameraVars, retryVars, pageVars>>

generateRegistrationOptions == generateOptions("registration")

generateAuthenticationOptions == generateOptions("authentication")

\* the challenge lookup of a verify call and what the call ends with
verify(call, challengeToken, rest) ==
    /\ verifyCount < MaxVerifies
    /\ verifyCount' = verifyCount + 1
    /\ challenges' = mapDelete(challenges, challengeToken)
    /\ presented' = presented \cup {challengeToken}
    /\ lastVerify' =
           [call |-> call, token |-> challengeToken, at |-> authClock,
            issuedAt |-> IF challengeToken \in DOMAIN issued
                             THEN issued[challengeToken].at ELSE 0,
            wasIssued |-> challengeToken \in DOMAIN issued,
            wasPresented |-> challengeToken \in presented,
            outcome |-> IF challengeRejected(challenges, challengeToken, authClock)
                            THEN ChallengeInvalid ELSE rest]
    /\ UNCHANGED <<authClock, nextToken, issued>>
    /\ UNCHANGED <<parserVars, inventoryVars, storeVars, cameraVars, retryVars, pageVars>>

verifyRegistration(challengeToken, rest) ==
    verify("verifyRegistration", challengeToken, rest)

verifyAuthentication(challengeToken, rest) ==
    verify("verifyAuthentication", challengeToken, rest)

\* Date.now() moves on, by a millisecond or by the lifetime of a challenge
AuthTick(ms) ==
    /\ (authClock \div ChallengeTtlMs) + (authClock % ChallengeTtlMs) < MaxAuthTicks
    /\ authClock' = authClock + ms
    /\ UNCHANGED <<challenges, nextToken, issued, presented, lastVerify, verifyCount>>
    /\ UNCHANGED <<parserVars, inventoryVars, storeVars, cameraVars, retryVars, pageVars>>

\* the tokens a client can present: those handed out, or one made up
PresentableTokens == DOMAIN issued \cup {UnknownToken}

AuthNext ==
    \/ generateRegistrationOptions
    \/ generateAuthenticationOptions
    \/ \E t \in PresentableTokens, rest \in RegistrationOutcomes :
           verifyRegistration(t, rest)
    \/ \E t \in PresentableTokens, rest \in AuthenticationOutcomes :
           verifyAuthentication(t, rest)
    \/ \E ms \in {1, ChallengeTtlMs} : AuthTick(ms)

SpecAuth == AuthInit /\ [][AuthNext]_vars

\* ---------------------------------------------------------------------
\* Scan page, single-scan flow (apps/web/src/pages/Scan.tsx)
\* ---------------------------------------------------------------------

\* what the camera hands to onScan
PageScanResults ==
    {[cip13 |-> <<"3", "4", "0", "0", "9", "3", "0", "0", "0", "0", "0", "0", "1">>, source |-> src, expiryDate |-> e, batchNumber |-> b] :
        src \in {"datamatrix", "barcode"},
        e \in {NULL, <<"2", "0", "2", "5", "-", "0", "6", "-", "3", "0">>},
        b \in {NULL, <<"L", "O", "T", "1">>}}

PageInit ==
    /\ ParserIdle
    /\ InventoryIdle
    /\ StoreIdle
    /\ CameraIdle
    /\ RetryIdle
    /\ AuthIdle
    /\ PageIdle

otherVars == <<parserVars, inventoryVars, storeVars, cameraVars, retryVars, authVars>>

handleStartCamera ==
    /\ step = "choose"
    /\ mode' = "camera"
    /\ step' = "scanning"
    /\ lookupError' = FALSE
    /\ UNCHANGED <<scanResult, selectedMedicine, formData, lookupPc, lookupOf, addPc>>
    /\ UNCHANGED otherVars

\* the scanner's onClose outside bulk mode
onClose ==
    /\ mode = "camera"
    /\ mode' = "idle"
    /\ step' = "choose"
    /\ UNCHANGED <<scanResult, selectedMedicine, formData, lookupError, lookupPc,
                   lookupOf, addPc>>
    /\ UNCHANGED otherVars

\* handleCameraScan up to its await: the lookup request is sent
handleCameraScan(r) ==
    /\ mode = "camera"
    /\ step = "scanning"
    /\ scanResult' = r
    /\ mode' = "idle"
    /\ step' = "looking-up"
    /\ lookupError' = FALSE
    /\ formData' =
           [batchNumber |-> IF r.batchNumber # NULL THEN r.batchNumber
                                                   ELSE formData.batchNumber,
            expiryDate |-> IF r.expiryDate # NULL THEN r.expiryDate
                                                 ELSE formData.expiryDate,
            quantity |-> formData.quantity]
    /\ lookupPc' = "pending"
    /\ lookupOf' = r
    /\ UNCHANGED <<selectedMedicine, addPc>>
    /\ UNCHANGED otherVars

\* the try block after the await: the medicine was found
LookupResolves ==
    /\ lookupPc = "pending"
    /\ lookupPc' = "none"
    /\ selectedMedicine' = TRUE
    /\ IF lookupOf.source = "datamatrix" /\ lookupOf.expiryDate # NULL
           THEN /\ addPc' = "pending"
                /\ step' = step
           ELSE /\ addPc' = addPc
                /\ step' = "confirm"
    /\ UNCHANGED <<mode, scanResult, formData, lookupError, lookupOf>>
    /\ UNCHANGED otherVars

\* the catch block
LookupRejects ==
    /\ lookupPc = "pending"
    /\ lookupPc' = "none"
    /\ lookupError' = TRUE
    /\ step' = "confirm"
    /\ UNCHANGED <<mode, scanResult, selectedMedicine, formData, lookupOf, addPc>>
    /\ UNCHANGED otherVars

handleConfirmSubmit ==
    /\ step = "confirm"
    /\ selectedMedicine
    /\ addPc # "pending"
    /\ addPc' = "pending"
    /\ UNCHANGED <<step, mode, scanResult, selectedMedicine, formData, lookupError,
                   lookupPc, lookupOf>>
    /\ UNCHANGED otherVars

\* addMutation.onSuccess
AddSucceeds ==
    /\ addPc = "pending"
    /\ addPc' = "success"
    /\ selectedMedicine' = FALSE
    /\ scanResult' = NoScanResult
    /\ formData' = EmptyForm
    /\ step' = "success"
    /\ UNCHANGED <<mode, lookupError, lookupPc, lookupOf>>
    /\ UNCHANGED otherVars

\* addMutation.onError: console.error only
AddFails ==
    /\ addPc = "pending"
    /\ addPc' = "error"
    /\ UNCHANGED <<step, mode, scanResult, selectedMedicine, formData, lookupError,
                   lookupPc, lookupOf>>
    /\ UNCHANGED otherVars

handleScanAnother ==
    /\ step = "success"
    /\ scanResult' = NoScanResult
    /\ selectedMedicine' = FALSE
    /\ lookupError' = FALSE
    /\ formData' = EmptyForm
    /\ step' = "choose"
    /\ mode' = "idle"
    /\ UNCHANGED <<lookupPc, lookupOf, addPc>>
    /\ UNCHANGED otherVars

handleBackToChoose ==
    /\ step = "confirm"
    /\ mode' = "idle"
    /\ step' = "choose"
    /\ selectedMedicine' = FALSE
    /\ scanResult' = NoScanResult
    /\ lookupError' = FALSE
    /\ UNCHANGED <<formData, lookupPc, lookupOf, addPc>>
    /\ UNCHANGED otherVars

PageNext ==
    \/ handleStartCamera
    \/ onClose
    \/ \E r \in PageScanResults : handleCameraScan(r)
    \/ LookupResolves
    \/ LookupRejects
    \/ handleConfirmSubmit
    \/ AddSucceeds
    \/ AddFails
    \/ handleScanAnother
    \/ handleBackToChoose

\* every request the page sends is answered or fails; the user owes no click
SpecPage ==
    /\ PageInit
    /\ [][PageNext]_vars
    /\ WF_vars(LookupResolves \/ LookupRejects)
    /\ WF_vars(AddSucceeds \/ AddFails)

\* the scans on which the run of a call to its end is followed: those of one
\* trade item code and at most one field, the plain texts, the scans with a
\* repeated AI; of the scans with an expiry date three are kept
TerminatesInputs ==
    {i \in FramedInputs \cup PlainInputs \cup DuplicateInputs :
        \A k \in 1..(Len(i) - 1) : SubSeq(i, k, k + 1) # <<"1", "7">>}
    \cup {<<"0", "1">> \o GtinFr \o <<"1", "7", "2", "3", "0", "6", "3", "0">> \o <<"1", "0", "L", "O", "T", GS>> \o <<"2", "1", "L", "O", "T">>,
          <<"0", "1">> \o GtinFr \o <<"1", "7", "2", "3", "1", "3", "1", "5">> \o <<"9", "9", "X">>,
          <<"]", "d", "2">> \o GtinFr \o <<"1", "7", "2", "4", "0", "2">>}

TerminatesInit ==
    /\ Init
    /\ raw \in TerminatesInputs

\* the call runs to its end: synchronous code, nothing else is scheduled
SpecTerminates == TerminatesInit /\ [][Next]_vars /\ WF_vars(Next)

\* ------------------------------------------------------------------------
\* CameraScanner: the camera effect and handleScanSuccess
\* ------------------------------------------------------------------------

\* largest number of runs of the effect, of clock steps and of onScan calls
MaxRuns == 2

MaxTicks == 2

MaxCalls == 3

\* the time window of handleScanSuccess and the delay between two frames
DebounceMs == 3000

FrameMs == 125

\* the clock moves by twelve frames at a time
ClockStep == 12 * FrameMs

\* what the decoder reads: two medicine codes and a text that is no code
DecodedTexts == {<<"3", "4", "0", "0", "9", "3", "0", "0", "0", "0", "0", "0", "1">>, <<"3", "4", "0", "0", "9", "3", "0", "0", "0", "0", "0", "0", "2">>, <<"h", "e", "l", "l", "o">>}

\* handleScanSuccess: the refs and the onScan calls after a decoded text
handleScanSuccess(decodedText, by) ==
    IF decodedText = lastScan /\ now - lastScanTime < DebounceMs
    THEN [lastScan |-> lastScan, lastScanTime |-> lastScanTime,
          onScanCalls |-> onScanCalls]
    ELSE IF parseScanResult(decodedText) # NullScan
    THEN [lastScan |-> decodedText, lastScanTime |-> now,
          onScanCalls |-> Append(onScanCalls,
                                 [text |-> decodedText, at |-> now, by |-> by])]
    ELSE [lastScan |-> lastScan, lastScanTime |-> lastScanTime,
          onScanCalls |-> onScanCalls]

CameraInit ==
    /\ CameraIdle
    /\ RetryIdle
    /\ AuthIdle
    /\ PageIdle
    /\ ParserIdle
    /\ InventoryIdle
    /\ StoreIdle

\* active becomes true: the effect runs and calls getUserMedia
Activate ==
    /\ ~scannerActive
    /\ Len(effects) < MaxRuns
    /\ scannerActive' = TRUE
    /\ effects' = Append(effects, [pc |-> "getUserMedia", cancelled |-> FALSE,
                                   text |-> <<>>])
    /\ UNCHANGED <<streamRef, liveStreams, lastScan, lastScanTime, now, onScanCalls>>
    /\ UNCHANGED <<parserVars, inventoryVars, storeVars, retryVars, authVars, pageVars>>

\* active becomes false: the cleanup of the running effect
Deactivate ==
    /\ scannerActive
    /\ scannerActive' = FALSE
    /\ effects' = [effects EXCEPT ![Len(effects)].cancelled = TRUE]
    /\ liveStreams' = liveStreams \ {streamRef}
    /\ streamRef' = 0
    /\ UNCHANGED <<lastScan, lastScanTime, now, onScanCalls>>
    /\ UNCHANGED <<parserVars, inventoryVars, storeVars, retryVars, authVars, pageVars>>

\* getUserMedia of run e resolves with a new stream
GetUserMediaResolves(e) ==
    /\ effects[e].pc = "getUserMedia"
    /\ streamRef' = e
    /\ liveStreams' = IF effects[e].cancelled THEN liveStreams
                      ELSE liveStreams \cup {e}
    /\ effects' = [effects EXCEPT ![e].pc =
                      IF effects[e].cancelled THEN "ended" ELSE "scanning"]
    /\ UNCHANGED <<scannerActive, lastScan, lastScanTime, now, onScanCalls>>
    /\ UNCHANGED <<parserVars, inventoryVars, storeVars, retryVars, authVars, pageVars>>

\* getUserMedia of run e rejects
GetUserMediaRejects(e) ==
    /\ effects[e].pc = "getUserMedia"
    /\ effects' = [effects EXCEPT ![e].pc = "failed"]
    /\ UNCHANGED <<scannerActive, streamRef, liveStreams,
                   lastScan, lastScanTime, now, onScanCalls>>
    /\ UNCHANGED <<parserVars, inventoryVars, storeVars, retryVars, authVars, pageVars>>

\* scanFrame of run e starts to decode a frame
Detect(e, decodedText) ==
    /\ effects[e].pc = "scanning"
    /\ ~effects[e].cancelled
    /\ Len(onScanCalls) < MaxCalls
    /\ effects' = [effects EXCEPT ![e].pc = "detecting", ![e].text = decodedText]
    /\ UNCHANGED <<scannerActive, streamRef, liveStreams,
                   lastScan, lastScanTime, now, onScanCalls>>
    /\ UNCHANGED <<parserVars, inventoryVars, storeVars, retryVars, authVars, pageVars>>

\* the decoder of run e answers: the text goes to handleScanSuccess unless the
\* run was cancelled in between
Deliver(e) ==
    LET after == handleScanSuccess(effects[e].text, e)
    IN  /\ effects[e].pc = "detecting"
        /\ IF effects[e].cancelled
           THEN /\ effects' = [effects EXCEPT ![e].pc = "ended"]
                /\ UNCHANGED <<lastScan, lastScanTime, onScanCalls>>
           ELSE /\ effects' = [effects EXCEPT ![e].pc = "scanning"]
                /\ lastScan' = after.lastScan
                /\ lastScanTime' = after.lastScanTime
                /\ onScanCalls' = after.onScanCalls
        /\ UNCHANGED <<scannerActive, streamRef, liveStreams, now>>
        /\ UNCHANGED <<parserVars, inventoryVars, storeVars, retryVars, authVars, pageVars>>

\* time passes
Tick ==
    /\ now + ClockStep <= MaxTicks * ClockStep
    /\ now' = now + ClockStep
    /\ UNCHANGED <<scannerActive, effects, streamRef, liveStreams,
                   lastScan, lastScanTime, onScanCalls>>
    /\ UNCHANGED <<parserVars, inventoryVars, storeVars, retryVars, authVars, pageVars>>

CameraNext ==
    \/ Activate
    \/ Deactivate
    \/ \E e \in 1..Len(effects) : GetUserMediaResolves(e)
    \/ \E e \in 1..Len(effects) : GetUserMediaRejects(e)
    \/ \E e \in 1..Len(effects), t \in DecodedTexts : Detect(e, t)
    \/ \E e \in 1..Len(effects) : Deliver(e)
    \/ Tick

SpecCamera == CameraInit /\ [][CameraNext]_vars

\* the stepwise loop computes what the operators compute
StepwiseAgrees ==
    /\ pc \in {"parsed", "done"} => result = parseGs1DataMatrix(raw)
    /\ pc = "done" => scan = parseScanResult(raw)

\* ------------------------------------------------------------------------
\* Properties
\* ------------------------------------------------------------------------

IsString(x) == x \in Seq(Char)

IsStringOrNull(x) == x = NULL \/ IsString(x)

IsGs1ParseResult(r) ==
    /\ DOMAIN r = {"cip13", "expiryDate", "batchNumber", "serialNumber", "gtin", "isGs1"}
    /\ IsStringOrNull(r.cip13)
    /\ IsStringOrNull(r.expiryDate)
    /\ IsStringOrNull(r.batchNumber)
    /\ IsStringOrNull(r.serialNumber)
    /\ IsStringOrNull(r.gtin)
    /\ r.isGs1 \in BOOLEAN

IsScanResult(s) ==
    /\ DOMAIN s = {"cip13", "expiryDate", "batchNumber", "source"}
    /\ IsString(s.cip13)
    /\ IsStringOrNull(s.expiryDate)
    /\ IsStringOrNull(s.batchNumber)
    /\ s.source \in {"datamatrix", "barcode"}

AllDigits(s) == \A i \in 1..Len(s) : s[i] \in Digits

\* the loop started at cursor pos of data comes to stand on the AI ai
RECURSIVE CursorMeets(_, _, _)
CursorMeets(data_, pos_, ai) ==
    /\ pos_ < Len(data_)
    /\ \/ Slice(data_, pos_, pos_ + 2) = ai
       \/ LET s == ScanStep(data_, pos_, empty)
          IN  ~s.brk /\ CursorMeets(data_, s.pos, ai)

\* The calendar, stated apart from the parser's date arithmetic
IsLeapYear(y) == y % 4 = 0 /\ (y % 100 # 0 \/ y % 400 = 0)

LastDayOfMonth(y, m) ==
    IF m = 2 /\ IsLeapYear(y) THEN 29
    ELSE <<31, 28, 31, 30, 31, 30, 31, 31, 30, 31, 30, 31>>[m]

\* the century rule of the specification
CenturyYear(yy) == IF yy < 50 THEN 2000 + yy ELSE 1900 + yy

\* r is AI 01, 14 characters, AI 17, a six-digit value and a remainder
IsDateScan(r) ==
    /\ StartsWith(r, <<"0", "1">>)
    /\ Len(r) >= 24
    /\ Slice(r, 16, 18) = <<"1", "7">>
    /\ AllDigits(Slice(r, 18, 24))

DateYY(r) == DigitsToNat(Slice(r, 18, 20))

DateMM(r) == DigitsToNat(Slice(r, 20, 22))

DateDD(r) == DigitsToNat(Slice(r, 22, 24))

\* C1: for every input text parseGs1DataMatrix and parseScanResult complete
\* without throwing: what parseGs1DataMatrix returns is a Gs1ParseResult and
\* what parseScanResult returns is null or a ScanResult.
C1_NeverThrows ==
    /\ pc \in {"parsed", "done"} => IsGs1ParseResult(result)
    /\ pc = "done" => scan = NullScan \/ IsScanResult(scan)

\* a call made on a text whose last field is cut short has returned
C1_Witness ==
    /\ pc = "done"
    /\ pos > Len(data)
    /\ Len(raw) >= 16
    /\ scan = NullScan

\* C2: a non-null result of parseScanResult carries a product code of exactly
\* 13 decimal digits.
C2_Cip13IsThirteenDigits ==
    pc = "done" /\ scan # NullScan =>
        Len(scan.cip13) = 13 /\ AllDigits(scan.cip13)

\* C3 as claimed: for a 14-digit code G starting with 0340 and every remainder
\* R, both G+R and "01"+G+R parse to isGs1 = true and cip13 = G without its
\* first digit.
C3_BareGtinAnyRemainder ==
    pc = "done" /\ IsBare0340Gtin(raw) =>
        LET withAi == parseGs1DataMatrix(<<"0", "1">> \o raw)
        IN  /\ withAi.isGs1 /\ withAi.cip13 = Slice(raw, 1, 14)
            /\ result.isGs1 /\ result.cip13 = Slice(raw, 1, 14)

\* C3 amended: for a 14-digit code G starting with 0340 and a remainder R in
\* which the scan meets no further AI 01, "01"+G+R parses to isGs1 = true and
\* cip13 = G without its first digit; G+R parses to the same when it has at
\* least 16 characters, and to isGs1 = false with cip13 = null when shorter.
C3_BareGtin ==
    pc = "done" /\ IsBare0340Gtin(raw) /\ ~CursorMeets(<<"0", "1">> \o raw, 16, <<"0", "1">>) =>
        LET withAi == parseGs1DataMatrix(<<"0", "1">> \o raw)
        IN  /\ withAi.isGs1 /\ withAi.cip13 = Slice(raw, 1, 14)
            /\ Len(raw) >= 16 => result.isGs1 /\ result.cip13 = Slice(raw, 1, 14)
            /\ Len(raw) < 16 => ~result.isGs1 /\ result.cip13 = NULL

\* a bare code followed by fields was parsed to its product code
C3_Witness ==
    /\ pc = "done"
    /\ IsBare0340Gtin(raw)
    /\ Len(raw) > 16
    /\ ~CursorMeets(<<"0", "1">> \o raw, 16, <<"0", "1">>)
    /\ result.cip13 = Slice(raw, 1, 14)
    /\ result.batchNumber # NULL

\* C4: for every payload P and each symbology prefix, prefix+P parses to the
\* same Gs1ParseResult and the same scan result as P alone.
C4_PrefixTransparent ==
    pc = "done" =>
        \A p \in SymbologyPrefixes :
            /\ parseGs1DataMatrix(p \o raw) = result
            /\ parseScanResult(p \o raw) = scan

\* s is YYYY-MM-DD and names a day of the calendar
IsCalendarDate(s) ==
    /\ Len(s) = 10
    /\ s[5] = "-" /\ s[8] = "-"
    /\ AllDigits(Slice(s, 0, 4)) /\ AllDigits(Slice(s, 5, 7)) /\ AllDigits(Slice(s, 8, 10))
    /\ DigitsToNat(Slice(s, 5, 7)) \in 1..12
    /\ DigitsToNat(Slice(s, 8, 10)) \in
           1..LastDayOfMonth(DigitsToNat(Slice(s, 0, 4)), DigitsToNat(Slice(s, 5, 7)))

\* C5: a non-null expiryDate has the form YYYY-MM-DD and names an existing
\* calendar date.
C5_ExpiryIsCalendarDate ==
    pc \in {"parsed", "done"} /\ result.expiryDate # NULL =>
        IsCalendarDate(result.expiryDate)

\* C6: an AI 17 value YYMM00 with MM in 01..12 gives the last calendar day of
\* month MM of the resolved year, 29 February in a leap year included.
C6_DayZeroIsLastDay ==
    /\ parseGs1Date(<<"2", "4", "0", "2", "0", "0">>) = <<"2", "0", "2", "4", "-", "0", "2", "-", "2", "9">>
    /\ parseGs1Date(<<"2", "7", "0", "2", "0", "0">>) = <<"2", "0", "2", "7", "-", "0", "2", "-", "2", "8">>
    /\ pc \in {"parsed", "done"} /\ IsDateScan(raw) /\ ~CursorMeets(raw, 24, <<"1", "7">>)
         /\ DateMM(raw) \in 1..12 /\ DateDD(raw) = 0 =>
           result.expiryDate =
               NatToString(CenturyYear(DateYY(raw))) \o <<"-">> \o Slice(raw, 20, 22)
               \o <<"-">> \o TwoDigits(LastDayOfMonth(CenturyYear(DateYY(raw)), DateMM(raw)))

\* February of the leap year 2024 with day 00 was parsed
C6_Witness ==
    /\ pc = "done"
    /\ IsDateScan(raw)
    /\ Slice(raw, 18, 24) = <<"2", "4", "0", "2", "0", "0">>
    /\ result.expiryDate = <<"2", "0", "2", "4", "-", "0", "2", "-", "2", "9">>

\* C7: an AI 17 value YYMMDD with MM in 01..12 and DD a valid non-zero day of
\* that month gives "<year>-MM-DD" with year 2000+YY for YY < 50 and 1900+YY
\* for YY >= 50.
C7_DateRoundTrip ==
    pc \in {"parsed", "done"} /\ IsDateScan(raw) /\ ~CursorMeets(raw, 24, <<"1", "7">>)
      /\ DateMM(raw) \in 1..12
      /\ DateDD(raw) \in 1..LastDayOfMonth(CenturyYear(DateYY(raw)), DateMM(raw)) =>
        result.expiryDate =
            NatToString(CenturyYear(DateYY(raw))) \o <<"-">> \o Slice(raw, 20, 22)
            \o <<"-">> \o Slice(raw, 22, 24)

\* the pivot year 50 was parsed as 1950
C7_Witness ==
    /\ pc = "done"
    /\ IsDateScan(raw)
    /\ Slice(raw, 18, 24) = <<"5", "0", "0", "1", "0", "1">>
    /\ result.expiryDate = <<"1", "9", "5", "0", "-", "0", "1", "-", "0", "1">>

\* the scan r without its AI 17 field at characters 16..23
WithoutDate(r) == Slice(r, 0, 16) \o Slice(r, 24, Len(r))

\* C8: an AI 17 value whose month is outside 01..12 leaves the result as if
\* the field were absent (gtin, cip13, batch and serial as parsed without it);
\* when no later AI 17 or AI 01 follows, expiryDate is null, gtin and cip13
\* are those of the AI 01 field and parseScanResult returns the 'datamatrix'
\* result with expiryDate null.
C8_InvalidMonth ==
    pc = "done" /\ IsDateScan(raw) /\ DateMM(raw) \notin 1..12 =>
        /\ result = parseGs1DataMatrix(WithoutDate(raw))
        /\ ~CursorMeets(raw, 24, <<"1", "7">>) /\ ~CursorMeets(raw, 24, <<"0", "1">>) =>
             /\ result.expiryDate = NULL
             /\ result.gtin = Slice(raw, 2, 16)
             /\ result.cip13 = Slice(raw, 3, 16)
             /\ scan = [cip13 |-> Slice(raw, 3, 16), expiryDate |-> NULL,
                        batchNumber |-> result.batchNumber, source |-> "datamatrix"]

\* month 13 was met, and the batch and the serial after it were parsed
C8_Witness ==
    /\ pc = "done"
    /\ IsDateScan(raw)
    /\ DateMM(raw) = 13
    /\ result.expiryDate = NULL
    /\ result.batchNumber = <<"2", "1", " ", "A">>
    /\ result.serialNumber = <<"2", "1", " ", "A">>
    /\ scan # NullScan
    /\ scan.source = "datamatrix"

\* C9: for batch text B and serial text S free of GS, the scan
\* 01+GTIN+17+date+"10"+B+GS+"21"+S gives batchNumber = B and
\* serialNumber = S unmodified.
C9_SeparatorSplitsBatchAndSerial ==
    pc = "done" /\ StartsWith(raw, <<"0", "1">>) /\ Slice(raw, 16, 18) = <<"1", "7">> =>
        \A b \in Texts, s \in Texts :
            Slice(raw, 24, Len(raw)) = <<"1", "0">> \o b \o <<GS>> \o <<"2", "1">> \o s =>
                result.batchNumber = b /\ result.serialNumber = s

\* a batch with embedded white space and a serial were split at the separator
C9_Witness ==
    /\ pc = "done"
    /\ raw = <<"0", "1">> \o GtinFr \o <<"1", "7", "2", "3", "0", "6", "3", "0", "1", "0">> \o <<"2", "1", " ", "A">> \o <<GS>> \o <<"2", "1">> \o <<"2", "1", " ", "A">>
    /\ result.batchNumber = <<"2", "1", " ", "A">>
    /\ result.serialNumber = <<"2", "1", " ", "A">>

\* C10: in every Gs1ParseResult isGs1 = false implies that cip13, gtin,
\* expiryDate, batchNumber and serialNumber are all null.
C10_NotGs1AllNull ==
    ~result.isGs1 =>
        /\ result.cip13 = NULL
        /\ result.gtin = NULL
        /\ result.expiryDate = NULL
        /\ result.batchNumber = NULL
        /\ result.serialNumber = NULL

\* a text of 16 characters or more was rejected as not GS1
C10_Witness ==
    /\ pc = "done"
    /\ Len(raw) >= 16
    /\ ~result.isGs1

\* C11: in every Gs1ParseResult cip13 is non-null only if gtin is non-null
\* and has exactly 14 characters, and then cip13 is gtin without its first
\* character; an AI 01 value shorter than 14 characters leaves cip13 null.
C11_Cip13FromGtin ==
    /\ result.cip13 # NULL =>
         /\ result.gtin # NULL
         /\ Len(result.gtin) = 14
         /\ result.cip13 = SubSeq(result.gtin, 2, 14)
    /\ result.gtin # NULL /\ Len(result.gtin) < 14 => result.cip13 = NULL

\* an AI 01 value cut short was stored as gtin and gave no cip13
C11_Witness ==
    /\ pc = "done"
    /\ result.gtin = GtinShort
    /\ result.cip13 = NULL

\* white space only
IsBlank(s) == \A i \in 1..Len(s) : s[i] \in WhiteSpace

\* the positions at which r holds 13 digits starting with 340, with nothing
\* but white space before and after them
PlainCodeAt(r) ==
    {i \in 0..(Len(r) - 13) :
        /\ IsBlank(SubSeq(r, 1, i))
        /\ IsBlank(SubSeq(r, i + 14, Len(r)))
        /\ AllDigits(SubSeq(r, i + 1, i + 13))
        /\ SubSeq(r, i + 1, i + 3) = <<"3", "4", "0">>}

\* C12: parseScanResult returns a 'barcode' result exactly when the trimmed
\* input is 13 decimal digits starting with 340; the result then carries the
\* trimmed input as cip13 and null expiryDate and batchNumber; 13 digits that
\* do not start with 340 give null.
C12_PlainBarcode ==
    pc = "done" =>
        /\ (scan # NullScan /\ scan.source = "barcode") <=> PlainCodeAt(raw) # {}
        /\ \A i \in PlainCodeAt(raw) :
               scan = [cip13 |-> SubSeq(raw, i + 1, i + 13), expiryDate |-> NULL,
                       batchNumber |-> NULL, source |-> "barcode"]
        /\ Len(raw) = 13 /\ AllDigits(raw) /\ SubSeq(raw, 1, 3) # <<"3", "4", "0">> =>
               scan = NullScan

\* a plain code surrounded by white space was accepted as a barcode
C12_Witness ==
    /\ pc = "done"
    /\ raw = <<" ", " ", "3", "4", "0", "0", "9", "3", "0", "0", "0", "0", "0", "0", "1", " ", " ">>
    /\ scan # NullScan
    /\ scan.source = "barcode"
    /\ scan.cip13 = <<"3", "4", "0", "0", "9", "3", "0", "0", "0", "0", "0", "0", "1">>

\* C13: the GS1 path comes first and wins: when the GS1 parse has isGs1 = true
\* and a non-null cip13, parseScanResult returns its cip13, expiryDate and
\* batchNumber with source 'datamatrix'; a 'barcode' result occurs only when
\* the GS1 parse gave no product code.
C13_Gs1PathFirst ==
    pc = "done" =>
        /\ result.isGs1 /\ result.cip13 # NULL =>
               scan = [cip13 |-> result.cip13, expiryDate |-> result.expiryDate,
                       batchNumber |-> result.batchNumber, source |-> "datamatrix"]
        /\ scan # NullScan /\ scan.source = "barcode" =>
               ~(result.isGs1 /\ result.cip13 # NULL)

\* a scan with a serial and a batch that differ was classified as datamatrix
C13_Witness ==
    /\ pc = "done"
    /\ result.isGs1
    /\ result.batchNumber = <<"2", "1", " ", "A">>
    /\ result.serialNumber = <<"L", "O", "T">>
    /\ scan # NullScan
    /\ scan.source = "datamatrix"
    /\ scan.batchNumber = <<"2", "1", " ", "A">>

\* r without one leading symbology prefix
Unprefixed(r) ==
    IF Len(r) >= 3 /\ SubSeq(r, 1, 3) \in {<<"]", "d", "2">>, <<"]", "Q", "3">>, <<"]", "C", "1">>}
    THEN SubSeq(r, 4, Len(r)) ELSE r

\* the framing the specification recognizes as GS1
HasGs1Framing(r) ==
    /\ Len(r) >= 16
    /\ \/ SubSeq(Unprefixed(r), 1, 2) = <<"0", "1">>
       \/ /\ Len(Unprefixed(r)) >= 14
          /\ SubSeq(Unprefixed(r), 1, 4) = <<"0", "3", "4", "0">>
          /\ AllDigits(SubSeq(Unprefixed(r), 1, 14))

\* C14: parseGs1DataMatrix reports isGs1 = true exactly when the text has at
\* least 16 characters and, after removal of one leading symbology prefix,
\* starts with AI 01 or with a 14-digit code beginning with 0340; any other
\* text makes parseScanResult return null unless it is a valid plain barcode.
C14_Gs1Recognition ==
    /\ pc \in {"parsed", "done"} => (result.isGs1 <=> HasGs1Framing(raw))
    /\ pc = "done" /\ ~HasGs1Framing(raw) =>
           scan = NullScan \/ (scan.source = "barcode" /\ PlainCodeAt(raw) # {})

\* a prefixed bare code was recognized, its prefix counted in the length
C14_Witness ==
    /\ pc = "done"
    /\ Len(raw) >= 16
    /\ SubSeq(raw, 1, 3) = <<"]", "Q", "3">>
    /\ IsBare0340Gtin(Unprefixed(raw))
    /\ result.isGs1

\* the fixed-length and the variable-length AIs as the specification lists them
ListedFixedAis == {<<"0", "1">>, <<"0", "2">>, <<"1", "7">>, <<"1", "1">>, <<"1", "3">>, <<"1", "5">>, <<"1", "6">>}

ListedVariableAis == {<<"1", "0">>, <<"2", "1">>, <<"2", "2">>, <<"3", "0">>, <<"3", "7">>}

RecognizedAis == ListedFixedAis \cup ListedVariableAis

\* the fields tried that are complete: a fixed-length AI with its whole value,
\* or a variable-length AI closed by GS
ClosedFields ==
    {f \in Fields :
        /\ SubSeq(f, 1, 2) \in RecognizedAis
        /\ \/ SubSeq(f, 1, 2) \in ListedFixedAis
           \/ f[Len(f)] = GS}

RECURSIVE ClosedTails(_)
ClosedTails(n) ==
    IF n = 0 THEN {<<>>}
    ELSE LET shorter == ClosedTails(n - 1)
         IN  shorter \cup {t \o f : t \in shorter, f \in ClosedFields}

\* AI 01 with its code, then complete recognized fields
ClosedScans == {<<"0", "1">> \o GtinFr \o t : t \in ClosedTails(MaxFields)}

\* C19: scanning stops at the first AI that is not recognized and keeps what
\* was accumulated: a scan P+U+R, P complete recognized fields starting with
\* AI 01 and U not starting with a recognized AI, parses to the result of P
\* alone.
C19_StopsAtUnknownAi ==
    \A n \in 16..(Len(raw) - 1) :
        /\ SubSeq(raw, 1, n) \in ClosedScans
        /\ Slice(raw, n, n + 2) \notin RecognizedAis
        => /\ parseGs1DataMatrix(raw) = parseGs1DataMatrix(SubSeq(raw, 1, n))
           /\ pc \in {"parsed", "done"} => result = parseGs1DataMatrix(SubSeq(raw, 1, n))

\* an unknown AI after the date hid the batch and the serial behind it
C19_Witness ==
    /\ pc = "done"
    /\ raw = <<"0", "1">> \o GtinFr \o <<"1", "7", "2", "3", "0", "6", "3", "0">> \o <<"9", "9", "X">> \o <<"1", "0", "L", "O", "T", GS>>
    /\ result.expiryDate = <<"2", "0", "2", "3", "-", "0", "6", "-", "3", "0">>
    /\ result.batchNumber = NULL

\* complete fields of the AIs the scanner reads and does not surface
UnusedFields ==
    {<<"0", "2", "1", "3", "4", "0", "0", "9", "3", "4", "0", "1", "2", "3", "0", "8">>, <<"1", "1", "2", "3", "0", "1", "0", "1">>, <<"1", "3", "2", "3", "0", "1", "0", "1">>, <<"1", "5", "2", "3", "0", "1", "0", "1">>, <<"1", "6", "2", "3", "0", "1", "0", "1">>,
     <<"2", "2", "X", GS>>, <<"3", "0", "5", GS>>, <<"3", "7", "1", "2", GS>>}

\* C20: a complete field of a recognized but unused AI (02, 11, 13, 15, 16,
\* 22, 30, 37) put between two fields of a scan leaves the Gs1ParseResult as
\* it is without it, the fields after it still parsed.
C20_UnusedAisChangeNothing ==
    pc = "done" =>
        \A n \in 16..Len(raw) :
            SubSeq(raw, 1, n) \in ClosedScans =>
                \A f \in UnusedFields :
                    parseGs1DataMatrix(SubSeq(raw, 1, n) \o f \o SubSeq(raw, n + 1, Len(raw)))
                        = result

\* a production date between the expiry date and the serial: both were parsed
C20_Witness ==
    /\ pc = "done"
    /\ raw = <<"0", "1">> \o GtinFr \o <<"1", "7", "2", "3", "0", "6", "3", "0">> \o <<"1", "1", "2", "3", "0", "1", "0", "1">> \o <<"2", "1", "L", "O", "T">>
    /\ result.expiryDate = <<"2", "0", "2", "3", "-", "0", "6", "-", "3", "0">>
    /\ result.serialNumber = <<"L", "O", "T">>

\* ------------------------------------------------------------------------
\* Properties of the inventory service
\* ------------------------------------------------------------------------

\* C15: after any interleaving of create / bulkAdd requests the inventory
\* holds at most one row per medicine CIS: an add for a CIS that is already
\* stored increments the existing row instead of creating a second one,
\* also when two adds of the same medicine run concurrently.
C15_OneRowPerCis ==
    \A x, y \in inventory : x.cis = y.cis => x = y

\* the codes the medicine lookup resolves
ResolvableCodes ==
    {<<"6", "0", "0", "0", "1", "2", "3", "4">>, <<"3", "4", "0", "0", "9", "3", "0", "0", "0", "0", "0", "0", "1">>, <<"6", "0", "0", "0", "5", "6", "7", "8">>, <<"3", "4", "0", "0", "9", "3", "0", "0", "0", "0", "0", "0", "2">>}

\* C16: bulkAdd handles every item on its own and in order: one result per
\* input item in input order, {success: false, error} for an item whose add
\* fails, the items after it still processed and the rows of the items that
\* succeeded kept, and no exception out of bulkAdd.
C16_BulkAddReportsEachItem ==
    \A c \in Clients :
        LET r == requests[c]
        IN  r.kind = "bulkAdd" =>
              /\ r.pc # "threw"
              /\ Len(r.results) = r.idx - 1
              /\ r.pc = "done" <=> Len(r.results) = Len(r.items)
              /\ \A i \in 1..Len(r.results) :
                    /\ r.results[i].cis = r.items[i].cis
                    /\ IF r.items[i].cis \in ResolvableCodes
                       THEN /\ r.results[i].success
                            /\ r.results[i].quantity >= r.items[i].quantity
                            /\ (\A d \in Clients : requests[d].kind # "bulkRemove")
                                  => \E x \in inventory : x.id = r.results[i].itemId
                       ELSE /\ ~r.results[i].success
                            /\ DOMAIN r.results[i] = {"cis", "success", "error"}

\* a bulkAdd whose first item failed and whose second item was added
C16_Witness ==
    \E c \in Clients :
        /\ requests[c].kind = "bulkAdd"
        /\ requests[c].pc = "done"
        /\ Len(requests[c].results) = 2
        /\ requests[c].results[1].success = FALSE
        /\ requests[c].results[1].error = "CIS is required"
        /\ requests[c].results[2].success = TRUE
        /\ \E x \in inventory : x.id = requests[c].results[2].itemId

PendingAt(list) == {k \in 1..Len(list) : list[k].status = "pending"}

\* C18: whatever operations the store has gone through, at most one pending
\* item exists per CIS; the pending items only grow by addItem putting a new
\* entry in front for a CIS that has no pending item, so addItem for a CIS
\* with a pending item adds nothing and nothing returns to pending.
C18_OnePendingPerCis ==
    /\ [](\A i, j \in PendingAt(items) : items[i].cis = items[j].cis => i = j)
    /\ [][Cardinality(PendingAt(items')) > Cardinality(PendingAt(items)) =>
             /\ Len(items') = Len(items) + 1
             /\ Tail(items') = items
             /\ items'[1].status = "pending"
             /\ \A k \in PendingAt(items) : items[k].cis # items'[1].cis
         /\ \A item \in ScannedItems :
               (\E k \in PendingAt(items) : items[k].cis = item.cis) =>
                   \A id \in StagedIds : addItem(item, id) => items' = items
        ]_vars

\* a CIS staged twice: once failed, once pending again after a rescan
C18_Witness ==
    /\ Len(items) = 2
    /\ items[1].cis = items[2].cis
    /\ items[1].status = "pending"
    /\ items[2].status = "error"

\* ------------------------------------------------------------------------
\* Further properties of the parser
\* ------------------------------------------------------------------------

\* the value of a complete field: what follows the AI, without the closing GS
FieldValue(f) ==
    IF f[Len(f)] = GS THEN SubSeq(f, 3, Len(f) - 1) ELSE SubSeq(f, 3, Len(f))

\* the calendar dates of the AI 17 values tried twice
DateOfValue(v) ==
    IF v = <<"2", "3", "0", "6", "3", "0">> THEN <<"2", "0", "2", "3", "-", "0", "6", "-", "3", "0">>
    ELSE IF v = <<"2", "4", "0", "2", "2", "9">> THEN <<"2", "0", "2", "4", "-", "0", "2", "-", "2", "9">>
    ELSE NULL

\* r holds what the field g alone gives for the AI of g
HoldsValueOf(r, g) ==
    LET ai == SubSeq(g, 1, 2)
        v  == FieldValue(g)
    IN  /\ ai = <<"0", "1">> => r.gtin = v /\ r.cip13 = SubSeq(v, 2, 14)
        /\ ai = <<"1", "7">> => r.expiryDate = DateOfValue(v)
        /\ ai = <<"1", "0">> => r.batchNumber = v
        /\ ai = <<"2", "1">> => r.serialNumber = v

\* C21: when AI 01, 17, 10 or 21 comes more than once in a scan, parsing
\* succeeds and gtin/cip13, expiryDate, batchNumber or serialNumber hold the
\* value of the last occurrence only.
C21_LastOccurrenceWins ==
    raw \in DuplicateInputs =>
    \A f \in RepeatFields, g \in RepeatFields :
        \A m \in {<<>>, <<"1", "1", "2", "3", "0", "1", "0", "1">>}, t \in {<<>>, <<"1", "5", "2", "5", "0", "1", "0", "1">>} :
            /\ raw = <<"0", "1">> \o GtinFr \o f \o m \o g \o t
            /\ SubSeq(g, 1, 2) \in {<<"0", "1">>, SubSeq(f, 1, 2)}
            => /\ parseGs1DataMatrix(raw).isGs1
               /\ HoldsValueOf(parseGs1DataMatrix(raw), g)
               /\ pc \in {"parsed", "done"} => result.isGs1 /\ HoldsValueOf(result, g)

\* two batches and two dates in one scan: the later ones are kept
C21_Witness ==
    /\ pc = "done"
    /\ \/ /\ raw = <<"0", "1">> \o GtinFr \o <<"1", "0", "L", "O", "T", GS>> \o <<"1", "1", "2", "3", "0", "1", "0", "1">> \o <<"1", "0", "B", "2", GS>>
          /\ result.batchNumber = <<"B", "2">>
       \/ /\ raw = <<"0", "1">> \o GtinFr \o <<"1", "7", "2", "3", "0", "6", "3", "0">> \o <<"1", "7", "2", "3", "1", "3", "1", "5">> \o <<"1", "5", "2", "5", "0", "1", "0", "1">>
          /\ result.expiryDate = NULL

\* C22: the field loop of parseGs1DataMatrix terminates on every input: an
\* iteration that does not stop the loop moves the cursor forward by at
\* least 2 characters from a place inside the text, and every call reaches
\* its return.
C22_LoopTerminates ==
    /\ [][pc = "loop" /\ pc' = "loop" => pos < Len(data) /\ pos' >= pos + 2]_vars
    /\ <>(pc = "done")

\* a scan of several fields parsed to its last character
C22_Witness ==
    /\ pc = "done"
    /\ raw = <<"0", "1">> \o GtinFr \o <<"1", "7", "2", "3", "0", "6", "3", "0">> \o <<"1", "0", "L", "O", "T", GS>> \o <<"2", "1", "L", "O", "T">>
    /\ pos = Len(data)
    /\ result.serialNumber = <<"L", "O", "T">>

\* runs of white space put before a scan
BlankRuns == {<<" ">>, <<" ", " ">>, <<" ", " ", " ">>}

\* C28: white space is trimmed for the plain-barcode check only: a text that
\* parseScanResult classifies as 'datamatrix' is, with white space before it,
\* not recognized by parseGs1DataMatrix (isGs1 = false) and parseScanResult
\* returns null for it.
C28_LeadingBlankDefeatsGs1 ==
    /\ pc = "done" /\ scan # NullScan /\ scan.source = "datamatrix" =>
           \A w \in BlankRuns :
               /\ ~parseGs1DataMatrix(w \o raw).isGs1
               /\ parseScanResult(w \o raw) = NullScan
    /\ /\ pc = "done"
       /\ raw # <<>> /\ raw[1] \in WhiteSpace
       /\ parseScanResult(Tail(raw)) # NullScan
       /\ parseScanResult(Tail(raw)).source = "datamatrix"
       => ~result.isGs1 /\ scan = NullScan

\* a complete scan with a blank before it comes back as null
C28_Witness ==
    /\ pc = "done"
    /\ raw = <<" ", "0", "1">> \o GtinFr \o <<"1", "7", "2", "3", "0", "6", "3", "0">>
    /\ parseScanResult(Tail(raw)).source = "datamatrix"
    /\ result.isGs1 = FALSE
    /\ scan = NullScan

\* C24: addItem for a CIS that is staged and pending creates no second entry
\* and updates the staged entry with the data of the new scan.
C24_RescanUpdatesStagedItem ==
    \A item \in ScannedItems, id \in StagedIds :
        alreadyStaged(items, item) =>
            LET after == addItemTo(items, item, id)
            IN  /\ Len(after) = Len(items)
                /\ \A k \in PendingAt(after) :
                       after[k].cis = item.cis => after[k].expiryDate = item.expiryDate

\* ------------------------------------------------------------------------
\* Properties of the camera scanner
\* ------------------------------------------------------------------------

\* C23: whatever the sequence of decoded texts, onScan is not called for a
\* text for which it was called less than 3000 ms before.
C23_NoRepeatWithinWindow ==
    \A i \in 1..Len(onScanCalls), j \in 1..Len(onScanCalls) :
        i < j /\ onScanCalls[i].text = onScanCalls[j].text =>
            onScanCalls[j].at - onScanCalls[i].at >= 3000

\* C30: once the scanner is inactive and no getUserMedia call is pending,
\* every camera stream obtained has been stopped; and onScan is not called on
\* behalf of a run of the effect that has been cleaned up.
C30_NoStreamLeak ==
    /\ [](~scannerActive /\ (\A e \in 1..Len(effects) : effects[e].pc # "getUserMedia")
             => liveStreams = {})
    /\ [][Len(onScanCalls') > Len(onScanCalls) =>
             ~effects[onScanCalls'[Len(onScanCalls')].by].cancelled]_vars

\* C25: fetchWithRetry terminates whatever the requests fail with: it sends at
\* most 4 HTTP requests (the first and maxRetries = 3 retries), a resolved
\* request ends the call with that response and no request after it, and a
\* call that throws throws the error of the last request it sent.
C25_RetryBoundedAndTerminates ==
    /\ [](/\ requestsMade <= 4
          /\ fetchPc = "returned" =>
                 fetchResult.status = 200 /\ fetchResult.at = requestsMade
          /\ fetchPc = "threw" =>
                 fetchResult = lastError /\ fetchResult.at = requestsMade)
    /\ <>(fetchPc \in {"returned", "threw"})

\* the three retries are used up and the fourth request's error is thrown
C25_Witness ==
    /\ fetchPc = "threw"
    /\ requestsMade = 4
    /\ attempt = maxRetries
    /\ fetchResult.at = 4

\* RETRY_CONFIG.retryableStatuses
retryableStatuses == {429, 500, 502, 503, 504}

\* C26: a failed request is followed by a sleep and a further request only if
\* it failed with an HTTP error response whose status is in retryableStatuses.
C26_RetriesOnlyRetryableStatuses ==
    [][fetchPc = "request" /\ fetchPc' = "sleeping" =>
           /\ lastError'.axios
           /\ lastError'.status \in retryableStatuses]_vars

\* C27: a verify call accepts the challenge token only if a generate call
\* issued it, no verify call was given it before and it is at most 5 minutes
\* old; otherwise the call fails with 'Challenge expired or invalid'; and
\* after any verify call the token is not in the challenge store.
C27_ChallengeSingleUse ==
    lastVerify.call # "none" =>
        /\ lastVerify.outcome # ChallengeInvalid =>
               /\ lastVerify.wasIssued
               /\ ~lastVerify.wasPresented
               /\ lastVerify.at - lastVerify.issuedAt <= ChallengeTtlMs
        /\ lastVerify.token \notin DOMAIN challenges

\* a token still young enough is presented a second time and refused
C27_Witness ==
    /\ lastVerify.call \in {"verifyRegistration", "verifyAuthentication"}
    /\ lastVerify.wasIssued
    /\ lastVerify.wasPresented
    /\ lastVerify.at - lastVerify.issuedAt <= ChallengeTtlMs
    /\ lastVerify.outcome = ChallengeInvalid

\* C29: whenever the Scan page shows the 'looking-up' step, it later shows
\* 'confirm' or 'success'.
C29_LeavesLookingUp ==
    (step = "looking-up") ~> (step \in {"confirm", "success"})

====
